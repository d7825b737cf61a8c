-------------------------------- MODULE Layout --------------------------------
(***************************************************************************)
(* shared/src/layout.cpp: which users are listed, in which order and how   *)
(* many, and where the title and the list come to stand.  Only the         *)
(* vertical is kept of a rectangle; lengths are whole units, texts fit.    *)
(***************************************************************************)
EXTENDS Integers, Sequences, Ordering

TitleHeight == 2
RowHeight == 2
RowGap == 1

-----------------------------------------------------------------------------
(* order_users(): who is listed, and who comes first.  A name is a number. *)

Listed(u, cfg) ==
    /\ u.self => cfg.show_local_user
    /\ cfg.only_show_talking => u.talking \/ u.self
    /\ u.muted /\ ~u.self => cfg.show_muted_users

SpeakingFirst(cfg) == cfg.speaking_first \/ cfg.sort = "SpeakingFirst"

ByMode(a, b, cfg) ==
    \/ cfg.sort \in {"Alphabetical", "SpeakingFirst"} /\ a.name < b.name
    \/ cfg.sort = "TalkPower" /\ (a.power > b.power \/ (a.power = b.power /\ a.name < b.name))

Before(a, b, cfg) ==
    IF SpeakingFirst(cfg) /\ a.talking # b.talking THEN a.talking ELSE ByMode(a, b, cfg)

\* The sort is stable: who compares equal stays in the order of the server.
OrderUsers(users, cfg) ==
    LET kept == {i \in DOMAIN users : Listed(users[i], cfg)}
        Earlier(i, j) == \/ Before(users[i], users[j], cfg)
                         \/ ~Before(users[j], users[i], cfg) /\ i < j
        order == InOrder(kept, {p \in kept \X kept : Earlier(p[1], p[2])})
    IN [k \in DOMAIN order |-> users[order[k]]]

-----------------------------------------------------------------------------
(* compute_layout()                                                        *)

Least(a, b) == IF a < b THEN a ELSE b
Greatest(a, b) == IF a > b THEN a ELSE b

\* resolve_placement()
Placed(anchor, offset, h, vp) ==
    CASE anchor = "top" -> offset
      [] anchor = "bottom" -> vp - offset - h
      [] anchor = "middle" -> (vp - h) \div 2 + offset

\* The list is not laid out at all without a connection.
Rows(state, cfg) ==
    IF ~state.live THEN <<>>
    ELSE LET ordered == OrderUsers(state.users, cfg)
         IN SubSeq(ordered, 1, Least(cfg.max_visible_users, Len(ordered)))

Hidden(state, cfg) ==
    IF state.live THEN Len(OrderUsers(state.users, cfg)) - Len(Rows(state, cfg)) ELSE 0

\* "+N more" takes a row.
VisibleRows(state, cfg) == Len(Rows(state, cfg)) + (IF Hidden(state, cfg) > 0 THEN 1 ELSE 0)

ListHeight(n) == IF n = 0 THEN 0 ELSE n * RowHeight + (n - 1) * RowGap

\* A linked title and list are one block, moved back onto the screen.
OnScreen(y, h, vp) == Greatest(0, IF y + h > vp THEN vp - h ELSE y)

ComputeLayout(state, cfg, vp) ==
    LET n == VisibleRows(state, cfg)
        h == TitleHeight + (IF n > 0 THEN RowGap ELSE 0) + ListHeight(n)
    IN [viewport |-> vp, height |-> h, rows |-> Rows(state, cfg),
        y |-> OnScreen(Placed(cfg.anchor, cfg.offset, h, vp), h, vp)]
=============================================================================
