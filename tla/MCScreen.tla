------------------------------- MODULE MCScreen -------------------------------
(* Screen with one's own user and two others, and two configurations.       *)
EXTENDS Screen

U(name, self, talking, muted) ==
    [name |-> name, self |-> self, talking |-> talking, muted |-> muted, power |-> name]
Zoe(talking) == U(3, FALSE, talking, FALSE)
Me(talking) == U(2, TRUE, talking, FALSE)
Bob == U(1, FALSE, FALSE, TRUE)

MCUsers ==
    {<<Me(TRUE)>>} \cup {<<Bob, Me(FALSE), Zoe(z)>> : z \in BOOLEAN}

Standard ==
    [sort |-> "Alphabetical", speaking_first |-> TRUE, only_show_talking |-> FALSE,
     show_local_user |-> TRUE, show_muted_users |-> TRUE, max_visible_users |-> 1,
     anchor |-> "bottom", offset |-> 3, max_visible |-> 2, feed_shown |-> TRUE,
     enabled |-> {"join", "chat"},
     show_when_plugin_unavailable |-> FALSE, show_when_disconnected |-> FALSE]
Stealth ==
    [Standard EXCEPT !.sort = "TalkPower", !.speaking_first = FALSE, !.only_show_talking = TRUE,
        !.show_muted_users = FALSE, !.max_visible_users = 2, !.show_local_user = FALSE,
        !.anchor = "middle", !.max_visible = 1, !.feed_shown = FALSE,
        !.enabled = {"join", "connected"}, !.show_when_disconnected = TRUE,
        !.show_when_plugin_unavailable = TRUE]
MCSettings == {Standard, Stealth}
=============================================================================
