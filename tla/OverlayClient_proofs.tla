------------------------ MODULE OverlayClient_proofs ------------------------
(***************************************************************************)
(* Theorems about OverlayClient, for all endpoints and subscriptions and   *)
(* any number of calls and lines.                                          *)
(*                                                                         *)
(* The argument: where the IPC thread is says whether the connection is    *)
(* there, whether the pointer to it may be set, whether the store may hold *)
(* a list, and which of `local` and the plugin has the subscription that   *)
(* was read last.                                                          *)
(***************************************************************************)
EXTENDS OverlayClient, SequenceTheorems, TLAPS

Linked == Session \cup {"opened", "teardown", "closing", "closed"}
Shared == Session \cup {"teardown", "closing"}
Listing == {"loop", "read", "flush", "reread", "resend", "ping", "publish", "teardown"}

Joined == ~running /\ host \notin {"stopping", "joining"} => at = "off"

LinkHeld ==
  /\ Joined
  /\ at \in Linked => conn.open
  /\ active => at \in Shared

ListHeld ==
  /\ Joined
  /\ at \notin Listing => list = "none"
  /\ NoListWithoutLink

Declared ==
  /\ at = "declare" /\ ~slipped => local = subscription
  /\ at = "resend" /\ ~dirty /\ ~slipped => local = subscription
  /\ at = "declared" /\ ~slipped /\ Sendable => conn.got = subscription
  /\ at \in {"loop", "read", "flush", "ping", "publish"} /\ ~dirty /\ ~slipped /\ Sendable
       => conn.got = subscription

Flags == /\ running \in BOOLEAN /\ reconnect \in BOOLEAN /\ dirty \in BOOLEAN
         /\ slipped \in BOOLEAN /\ active \in BOOLEAN /\ fatal \in BOOLEAN
Connections == [open : BOOLEAN, cancelled : BOOLEAN, gone : BOOLEAN, unread : BOOLEAN,
                inbox : Seq(LineKinds), lines : 0..MaxLines,
                got : Subscriptions \cup {Undeclared}]
Rest == /\ endpoint \in Endpoints /\ target \in Endpoints
        /\ subscription \in Subscriptions /\ local \in Subscriptions
        /\ at \in Places
        /\ list \in {"none", "live", "stale"}
        /\ frame \in [link : Links, list : {"none", "live", "stale"}]
        /\ host \in {"idle", "flagging", "cancelling", "stopping", "joining"}

\* The type invariant in the parts that the provers take one at a time.
LEMMA TypesApart == TypeOK <=> Flags /\ conn \in Connections /\ Rest
  BY DEF TypeOK, Flags, Connections, Rest

\* Every step keeps the flags Boolean.
LEMMA NextFlags == Flags /\ conn \in Connections /\ [Next]_vars => Flags'
<1> SUFFICES ASSUME Flags, conn \in Connections, [Next]_vars PROVE Flags'
  OBVIOUS
<1> USE DEF Flags, Connections, Goto, Show,
        SameCalls, Calls, Cancelled, Sendable, Sent,
        shared, thread, store, options, locals, linkVars
<1>1. CASE Start
  BY <1>1 DEF Start
<1>2. CASE UpdateSubscription
  BY <1>2 DEF UpdateSubscription
<1>3. CASE SetEndpoint
  BY <1>3 DEF SetEndpoint
<1>4. CASE RequestReconnect
  BY <1>4 DEF RequestReconnect
<1>5. CASE Stop
  BY <1>5 DEF Stop
<1>6. CASE FlagReconnect
  BY <1>6 DEF FlagReconnect
<1>7. CASE CancelForReconnect
  BY <1>7 DEF CancelForReconnect
<1>8. CASE CancelForStop
  BY <1>8 DEF CancelForStop
<1>9. CASE Join
  BY <1>9 DEF Join
<1>10. CASE Top
  BY <1>10 DEF Top
<1>11. CASE ConnectFails
  BY <1>11 DEF ConnectFails
<1>12. CASE ConnectSucceeds
  BY <1>12 DEF ConnectSucceeds
<1>13. CASE BackoffOver
  BY <1>13 DEF BackoffOver
<1>14. CASE AfterSession
  BY <1>14 DEF AfterSession
<1>15. CASE End
  BY <1>15 DEF End
<1>16. CASE OpenSession
  BY <1>16 DEF OpenSession
<1>17. CASE SendHello
  BY <1>17 DEF SendHello
<1>18. CASE ReadSubscription
  BY <1>18 DEF ReadSubscription
<1>19. CASE Declare
  BY <1>19 DEF Declare
<1>20. CASE ClearDirty
  BY <1>20 DEF ClearDirty
<1>21. CASE Loop
  BY <1>21 DEF Loop
<1>22. CASE ReadFails
  BY <1>22 DEF ReadFails
<1>23. CASE ReadLine
  BY <1>23 DEF ReadLine
<1>24. CASE Flush
  BY <1>24 DEF Flush
<1>25. CASE Resend
  BY <1>25 DEF Resend
<1>26. CASE Ping
  BY <1>26 DEF Ping
<1>27. CASE Publish
  BY <1>27 DEF Publish
<1>28. CASE Teardown
  BY <1>28 DEF Teardown
<1>29. CASE ClearActive
  BY <1>29 DEF ClearActive
<1>30. CASE Destroy
  BY <1>30 DEF Destroy
<1>31. CASE PluginSends
  BY <1>31 DEF PluginSends
<1>32. CASE PluginCloses
  BY <1>32 DEF PluginCloses
<1>33. CASE SilenceGrows
  BY <1>33 DEF SilenceGrows
<1>34. CASE PluginReads
  BY <1>34 DEF PluginReads
<1>35. CASE UNCHANGED vars
  BY <1>35 DEF vars
<1> QED
  BY <1>1, <1>2, <1>3, <1>4, <1>5, <1>6, <1>7, <1>8, <1>9, <1>10, <1>11, <1>12,
     <1>13, <1>14, <1>15, <1>16, <1>17, <1>18, <1>19, <1>20, <1>21, <1>22, <1>23, <1>24,
     <1>25, <1>26, <1>27, <1>28, <1>29, <1>30, <1>31, <1>32, <1>33, <1>34, <1>35
  DEF Next, HostCalls, HostContinues, IpcThread, World

\* Every step keeps the connection a connection, whatever arrives on it.
LEMMA NextConn == conn \in Connections /\ Rest /\ [Next]_vars => (conn \in Connections)'
<1> SUFFICES ASSUME conn \in Connections, Rest, [Next]_vars PROVE conn' \in Connections
  OBVIOUS
<1> USE ClientAssumption DEF Connections, Rest, NoConn, Goto, Show, LineKinds,
        SameCalls, Calls, Cancelled, Sendable, Sent,
        shared, thread, store, options, locals, linkVars
<1>1. CASE Start
  BY <1>1 DEF Start
<1>2. CASE UpdateSubscription
  BY <1>2 DEF UpdateSubscription
<1>3. CASE SetEndpoint
  BY <1>3 DEF SetEndpoint
<1>4. CASE RequestReconnect
  BY <1>4 DEF RequestReconnect
<1>5. CASE Stop
  BY <1>5 DEF Stop
<1>6. CASE FlagReconnect
  BY <1>6 DEF FlagReconnect
<1>7. CASE CancelForReconnect
  BY <1>7 DEF CancelForReconnect
<1>8. CASE CancelForStop
  BY <1>8 DEF CancelForStop
<1>9. CASE Join
  BY <1>9 DEF Join
<1>10. CASE Top
  BY <1>10 DEF Top
<1>11. CASE ConnectFails
  BY <1>11 DEF ConnectFails
<1>12. CASE ConnectSucceeds
  <2>1. 0 \in 0..MaxLines
    OBVIOUS
  <2>2. conn' = [open |-> TRUE, cancelled |-> FALSE, gone |-> FALSE, unread |-> FALSE,
                 inbox |-> <<>>, lines |-> 0, got |-> Undeclared]
    BY <1>12 DEF ConnectSucceeds
  <2>3. <<>> \in Seq({"hello", "event", "gap", "noise", "fatal"})
    OBVIOUS
  <2> QED
    BY <2>1, <2>2, <2>3
<1>13. CASE BackoffOver
  BY <1>13 DEF BackoffOver
<1>14. CASE AfterSession
  BY <1>14 DEF AfterSession
<1>15. CASE End
  BY <1>15 DEF End
<1>16. CASE OpenSession
  BY <1>16 DEF OpenSession
<1>17. CASE SendHello
  BY <1>17 DEF SendHello
<1>18. CASE ReadSubscription
  BY <1>18 DEF ReadSubscription
<1>19. CASE Declare
  BY <1>19 DEF Declare
<1>20. CASE ClearDirty
  BY <1>20 DEF ClearDirty
<1>21. CASE Loop
  BY <1>21 DEF Loop
<1>22. CASE ReadFails
  BY <1>22 DEF ReadFails
<1>23. CASE ReadLine
  <2>1. Tail(conn.inbox) \in Seq(LineKinds)
    BY <1>23, HeadTailProperties DEF ReadLine
  <2>2. PICK u \in BOOLEAN : conn' = [conn EXCEPT !.inbox = Tail(conn.inbox), !.unread = u]
    BY <1>23 DEF ReadLine
  <2> QED
    BY <2>1, <2>2
<1>24. CASE Flush
  BY <1>24 DEF Flush
<1>25. CASE Resend
  BY <1>25 DEF Resend
<1>26. CASE Ping
  BY <1>26 DEF Ping
<1>27. CASE Publish
  BY <1>27 DEF Publish
<1>28. CASE Teardown
  BY <1>28 DEF Teardown
<1>29. CASE ClearActive
  BY <1>29 DEF ClearActive
<1>30. CASE Destroy
  BY <1>30 DEF Destroy
<1>31. CASE PluginSends
  <2>1. PICK kind \in LineKinds :
             conn' = [conn EXCEPT !.inbox = Append(conn.inbox, kind), !.lines = conn.lines + 1]
    BY <1>31 DEF PluginSends
  <2>2. Append(conn.inbox, kind) \in Seq(LineKinds)
    BY <2>1, AppendProperties
  <2>3. conn.lines + 1 \in 0..MaxLines
    BY <1>31 DEF PluginSends
  <2> QED
    BY <2>1, <2>2, <2>3
<1>32. CASE PluginCloses
  BY <1>32 DEF PluginCloses
<1>33. CASE SilenceGrows
  BY <1>33 DEF SilenceGrows
<1>34. CASE PluginReads
  BY <1>34 DEF PluginReads
<1>35. CASE UNCHANGED vars
  BY <1>35 DEF vars
<1> QED
  BY <1>1, <1>2, <1>3, <1>4, <1>5, <1>6, <1>7, <1>8, <1>9, <1>10, <1>11, <1>12,
     <1>13, <1>14, <1>15, <1>16, <1>17, <1>18, <1>19, <1>20, <1>21, <1>22, <1>23, <1>24,
     <1>25, <1>26, <1>27, <1>28, <1>29, <1>30, <1>31, <1>32, <1>33, <1>34, <1>35
  DEF Next, HostCalls, HostContinues, IpcThread, World

\* Every step keeps the types of the rest.
LEMMA NextRest == TypeOK /\ [Next]_vars => Rest'
<1> SUFFICES ASSUME Rest, [Next]_vars PROVE Rest'
  BY TypesApart
<1> USE DEF Rest, Places, Session, Links, Goto, Show,
        SameCalls, Calls, Ticked,
        shared, thread, store, options, locals, linkVars
<1>1. CASE Start
  BY <1>1 DEF Start
<1>2. CASE UpdateSubscription
  BY <1>2 DEF UpdateSubscription
<1>3. CASE SetEndpoint
  BY <1>3 DEF SetEndpoint
<1>4. CASE RequestReconnect
  BY <1>4 DEF RequestReconnect
<1>5. CASE Stop
  BY <1>5 DEF Stop
<1>6. CASE FlagReconnect
  BY <1>6 DEF FlagReconnect
<1>7. CASE CancelForReconnect
  BY <1>7 DEF CancelForReconnect
<1>8. CASE CancelForStop
  BY <1>8 DEF CancelForStop
<1>9. CASE Join
  BY <1>9 DEF Join
<1>10. CASE Top
  BY <1>10 DEF Top
<1>11. CASE ConnectFails
  BY <1>11 DEF ConnectFails
<1>12. CASE ConnectSucceeds
  BY <1>12 DEF ConnectSucceeds
<1>13. CASE BackoffOver
  BY <1>13 DEF BackoffOver
<1>14. CASE AfterSession
  BY <1>14 DEF AfterSession
<1>15. CASE End
  BY <1>15 DEF End
<1>16. CASE OpenSession
  BY <1>16 DEF OpenSession
<1>17. CASE SendHello
  BY <1>17 DEF SendHello
<1>18. CASE ReadSubscription
  BY <1>18 DEF ReadSubscription
<1>19. CASE Declare
  BY <1>19 DEF Declare
<1>20. CASE ClearDirty
  BY <1>20 DEF ClearDirty
<1>21. CASE Loop
  BY <1>21 DEF Loop
<1>22. CASE ReadFails
  BY <1>22 DEF ReadFails
<1>23. CASE ReadLine
  BY <1>23 DEF ReadLine
<1>24. CASE Flush
  BY <1>24 DEF Flush
<1>25. CASE Resend
  BY <1>25 DEF Resend
<1>26. CASE Ping
  BY <1>26 DEF Ping
<1>27. CASE Publish
  BY <1>27 DEF Publish
<1>28. CASE Teardown
  BY <1>28 DEF Teardown
<1>29. CASE ClearActive
  BY <1>29 DEF ClearActive
<1>30. CASE Destroy
  BY <1>30 DEF Destroy
<1>31. CASE PluginSends
  BY <1>31 DEF PluginSends
<1>32. CASE PluginCloses
  BY <1>32 DEF PluginCloses
<1>33. CASE SilenceGrows
  BY <1>33 DEF SilenceGrows
<1>34. CASE PluginReads
  BY <1>34 DEF PluginReads
<1>35. CASE UNCHANGED vars
  BY <1>35 DEF vars
<1> QED
  BY <1>1, <1>2, <1>3, <1>4, <1>5, <1>6, <1>7, <1>8, <1>9, <1>10, <1>11, <1>12,
     <1>13, <1>14, <1>15, <1>16, <1>17, <1>18, <1>19, <1>20, <1>21, <1>22, <1>23, <1>24,
     <1>25, <1>26, <1>27, <1>28, <1>29, <1>30, <1>31, <1>32, <1>33, <1>34, <1>35
  DEF Next, HostCalls, HostContinues, IpcThread, World

\* Every step keeps the types.
LEMMA NextTypeOK == TypeOK /\ [Next]_vars => TypeOK'
<1> SUFFICES ASSUME TypeOK, [Next]_vars PROVE TypeOK'
  OBVIOUS
<1>1. Flags /\ conn \in Connections /\ Rest
  BY TypesApart
<1>2. Flags' /\ conn' \in Connections /\ Rest'
  BY <1>1, NextFlags, NextConn, NextRest
<1> QED
  BY <1>2 DEF TypeOK, Flags, Connections, Rest

\* Every step keeps the connection there while anybody can reach it.
LEMMA NextLinkHeld == TypeOK /\ LinkHeld /\ [Next]_vars => LinkHeld'
<1> SUFFICES ASSUME TypeOK, LinkHeld, [Next]_vars PROVE LinkHeld'
  OBVIOUS
<1> USE DEF TypeOK, Joined, LinkHeld, Linked, Shared, Session, NoConn, Goto,
        SameCalls, Calls, Cancelled, Sent, shared, thread, store, options, locals, linkVars
<1>1. CASE Start
  BY <1>1 DEF Start
<1>2. CASE UpdateSubscription
  BY <1>2 DEF UpdateSubscription
<1>3. CASE SetEndpoint
  BY <1>3 DEF SetEndpoint
<1>4. CASE RequestReconnect
  BY <1>4 DEF RequestReconnect
<1>5. CASE Stop
  BY <1>5 DEF Stop
<1>6. CASE FlagReconnect
  BY <1>6 DEF FlagReconnect
<1>7. CASE CancelForReconnect
  BY <1>7 DEF CancelForReconnect
<1>8. CASE CancelForStop
  BY <1>8 DEF CancelForStop
<1>9. CASE Join
  BY <1>9 DEF Join
<1>10. CASE Top
  BY <1>10 DEF Top
<1>11. CASE ConnectFails
  BY <1>11 DEF ConnectFails
<1>12. CASE ConnectSucceeds
  BY <1>12 DEF ConnectSucceeds
<1>13. CASE BackoffOver
  BY <1>13 DEF BackoffOver
<1>14. CASE AfterSession
  BY <1>14 DEF AfterSession
<1>15. CASE End
  BY <1>15 DEF End
<1>16. CASE OpenSession
  BY <1>16 DEF OpenSession
<1>17. CASE SendHello
  BY <1>17 DEF SendHello
<1>18. CASE ReadSubscription
  BY <1>18 DEF ReadSubscription
<1>19. CASE Declare
  BY <1>19 DEF Declare
<1>20. CASE ClearDirty
  BY <1>20 DEF ClearDirty
<1>21. CASE Loop
  BY <1>21 DEF Loop
<1>22. CASE ReadFails
  BY <1>22 DEF ReadFails
<1>23. CASE ReadLine
  BY <1>23 DEF ReadLine
<1>24. CASE Flush
  BY <1>24 DEF Flush
<1>25. CASE Resend
  BY <1>25 DEF Resend
<1>26. CASE Ping
  BY <1>26 DEF Ping
<1>27. CASE Publish
  BY <1>27 DEF Publish
<1>28. CASE Teardown
  BY <1>28 DEF Teardown
<1>29. CASE ClearActive
  BY <1>29 DEF ClearActive
<1>30. CASE Destroy
  BY <1>30 DEF Destroy
<1>31. CASE PluginSends
  BY <1>31 DEF PluginSends
<1>32. CASE PluginCloses
  BY <1>32 DEF PluginCloses
<1>33. CASE SilenceGrows
  BY <1>33 DEF SilenceGrows
<1>34. CASE PluginReads
  BY <1>34 DEF PluginReads
<1>35. CASE UNCHANGED vars
  BY <1>35 DEF vars
<1> QED
  BY <1>1, <1>2, <1>3, <1>4, <1>5, <1>6, <1>7, <1>8, <1>9, <1>10, <1>11, <1>12,
     <1>13, <1>14, <1>15, <1>16, <1>17, <1>18, <1>19, <1>20, <1>21, <1>22, <1>23, <1>24,
     <1>25, <1>26, <1>27, <1>28, <1>29, <1>30, <1>31, <1>32, <1>33, <1>34, <1>35
  DEF Next, HostCalls, HostContinues, IpcThread, World

\* Every step keeps the list inside a session, and off the screen without one.
LEMMA NextListHeld == TypeOK /\ ListHeld /\ [Next]_vars => ListHeld'
<1> SUFFICES ASSUME TypeOK, ListHeld, [Next]_vars PROVE ListHeld'
  OBVIOUS
<1> USE DEF TypeOK, Joined, ListHeld, Listing, NoListWithoutLink, Session, Goto, Show,
        SameCalls, Calls, shared, thread, store, options, locals, linkVars
<1>1. CASE Start
  BY <1>1 DEF Start
<1>2. CASE UpdateSubscription
  BY <1>2 DEF UpdateSubscription
<1>3. CASE SetEndpoint
  BY <1>3 DEF SetEndpoint
<1>4. CASE RequestReconnect
  BY <1>4 DEF RequestReconnect
<1>5. CASE Stop
  BY <1>5 DEF Stop
<1>6. CASE FlagReconnect
  BY <1>6 DEF FlagReconnect
<1>7. CASE CancelForReconnect
  BY <1>7 DEF CancelForReconnect
<1>8. CASE CancelForStop
  BY <1>8 DEF CancelForStop
<1>9. CASE Join
  BY <1>9 DEF Join
<1>10. CASE Top
  BY <1>10 DEF Top
<1>11. CASE ConnectFails
  BY <1>11 DEF ConnectFails
<1>12. CASE ConnectSucceeds
  BY <1>12 DEF ConnectSucceeds
<1>13. CASE BackoffOver
  BY <1>13 DEF BackoffOver
<1>14. CASE AfterSession
  BY <1>14 DEF AfterSession
<1>15. CASE End
  BY <1>15 DEF End
<1>16. CASE OpenSession
  BY <1>16 DEF OpenSession
<1>17. CASE SendHello
  BY <1>17 DEF SendHello
<1>18. CASE ReadSubscription
  BY <1>18 DEF ReadSubscription
<1>19. CASE Declare
  BY <1>19 DEF Declare
<1>20. CASE ClearDirty
  BY <1>20 DEF ClearDirty
<1>21. CASE Loop
  BY <1>21 DEF Loop
<1>22. CASE ReadFails
  BY <1>22 DEF ReadFails
<1>23. CASE ReadLine
  BY <1>23 DEF ReadLine
<1>24. CASE Flush
  BY <1>24 DEF Flush
<1>25. CASE Resend
  BY <1>25 DEF Resend
<1>26. CASE Ping
  BY <1>26 DEF Ping
<1>27. CASE Publish
  BY <1>27 DEF Publish
<1>28. CASE Teardown
  BY <1>28 DEF Teardown
<1>29. CASE ClearActive
  BY <1>29 DEF ClearActive
<1>30. CASE Destroy
  BY <1>30 DEF Destroy
<1>31. CASE PluginSends
  BY <1>31 DEF PluginSends
<1>32. CASE PluginCloses
  BY <1>32 DEF PluginCloses
<1>33. CASE SilenceGrows
  BY <1>33 DEF SilenceGrows
<1>34. CASE PluginReads
  BY <1>34 DEF PluginReads
<1>35. CASE UNCHANGED vars
  BY <1>35 DEF vars
<1> QED
  BY <1>1, <1>2, <1>3, <1>4, <1>5, <1>6, <1>7, <1>8, <1>9, <1>10, <1>11, <1>12,
     <1>13, <1>14, <1>15, <1>16, <1>17, <1>18, <1>19, <1>20, <1>21, <1>22, <1>23, <1>24,
     <1>25, <1>26, <1>27, <1>28, <1>29, <1>30, <1>31, <1>32, <1>33, <1>34, <1>35
  DEF Next, HostCalls, HostContinues, IpcThread, World

\* Every step keeps track of which subscription was read and declared.
LEMMA NextDeclared == TypeOK /\ Declared /\ [Next]_vars => Declared'
<1> SUFFICES ASSUME TypeOK, Declared, [Next]_vars PROVE Declared'
  OBVIOUS
<1> USE DEF TypeOK, Declared, Sendable, Sent, Goto, SameCalls, Calls, Cancelled,
        shared, thread, store, options, locals, linkVars
<1>1. CASE Start
  BY <1>1 DEF Start
<1>2. CASE UpdateSubscription
  BY <1>2 DEF UpdateSubscription
<1>3. CASE SetEndpoint
  BY <1>3 DEF SetEndpoint
<1>4. CASE RequestReconnect
  BY <1>4 DEF RequestReconnect
<1>5. CASE Stop
  BY <1>5 DEF Stop
<1>6. CASE FlagReconnect
  BY <1>6 DEF FlagReconnect
<1>7. CASE CancelForReconnect
  BY <1>7 DEF CancelForReconnect
<1>8. CASE CancelForStop
  BY <1>8 DEF CancelForStop
<1>9. CASE Join
  BY <1>9 DEF Join
<1>10. CASE Top
  BY <1>10 DEF Top
<1>11. CASE ConnectFails
  BY <1>11 DEF ConnectFails
<1>12. CASE ConnectSucceeds
  BY <1>12 DEF ConnectSucceeds
<1>13. CASE BackoffOver
  BY <1>13 DEF BackoffOver
<1>14. CASE AfterSession
  BY <1>14 DEF AfterSession
<1>15. CASE End
  BY <1>15 DEF End
<1>16. CASE OpenSession
  BY <1>16 DEF OpenSession
<1>17. CASE SendHello
  BY <1>17 DEF SendHello
<1>18. CASE ReadSubscription
  BY <1>18 DEF ReadSubscription
<1>19. CASE Declare
  BY <1>19 DEF Declare
<1>20. CASE ClearDirty
  BY <1>20 DEF ClearDirty
<1>21. CASE Loop
  BY <1>21 DEF Loop
<1>22. CASE ReadFails
  BY <1>22 DEF ReadFails
<1>23. CASE ReadLine
  BY <1>23 DEF ReadLine
<1>24. CASE Flush
  BY <1>24 DEF Flush
<1>25. CASE Resend
  BY <1>25 DEF Resend
<1>26. CASE Ping
  BY <1>26 DEF Ping
<1>27. CASE Publish
  BY <1>27 DEF Publish
<1>28. CASE Teardown
  BY <1>28 DEF Teardown
<1>29. CASE ClearActive
  BY <1>29 DEF ClearActive
<1>30. CASE Destroy
  BY <1>30 DEF Destroy
<1>31. CASE PluginSends
  BY <1>31 DEF PluginSends
<1>32. CASE PluginCloses
  BY <1>32 DEF PluginCloses
<1>33. CASE SilenceGrows
  BY <1>33 DEF SilenceGrows
<1>34. CASE PluginReads
  BY <1>34 DEF PluginReads
<1>35. CASE UNCHANGED vars
  BY <1>35 DEF vars
<1> QED
  BY <1>1, <1>2, <1>3, <1>4, <1>5, <1>6, <1>7, <1>8, <1>9, <1>10, <1>11, <1>12,
     <1>13, <1>14, <1>15, <1>16, <1>17, <1>18, <1>19, <1>20, <1>21, <1>22, <1>23, <1>24,
     <1>25, <1>26, <1>27, <1>28, <1>29, <1>30, <1>31, <1>32, <1>33, <1>34, <1>35
  DEF Next, HostCalls, HostContinues, IpcThread, World

\* The initial values have their types.
LEMMA InitTypeOK == Init => TypeOK
<1> SUFFICES ASSUME Init PROVE TypeOK
  OBVIOUS
<1>1. Flags
  BY DEF Init, Flags
<1>2. Undeclared \in Subscriptions \cup {Undeclared} /\ 0 \in 0..MaxLines
  BY ClientAssumption
<1>3. conn \in Connections
  BY <1>2 DEF Init, NoConn, Connections
<1>4. Rest
  BY DEF Init, Rest, Places, Session, Links
<1> QED
  BY <1>1, <1>3, <1>4, TypesApart

\* The type invariant of overlay_client.cpp's flags, threads and connection.
THEOREM TypeCorrect == Spec => []TypeOK
  BY InitTypeOK, NextTypeOK, PTL DEF Spec

\* cancel() never goes through active_connection_ to a connection that is gone.
THEOREM PointerIsGood == Spec => []ActiveIsOpen
<1>1. Init => LinkHeld
  BY DEF Init, LinkHeld, Joined, Linked, Shared, Session
<1>2. LinkHeld => ActiveIsOpen
  BY DEF LinkHeld, ActiveIsOpen, Linked, Shared
<1> QED
  BY <1>1, <1>2, InitTypeOK, NextTypeOK, NextLinkHeld, PTL DEF Spec

\* No frame shows a list with the link down, whichever way session() ended.
THEOREM ListNeedsLink == Spec => []NoListWithoutLink
<1>1. Init => ListHeld
  BY DEF Init, ListHeld, Joined, NoListWithoutLink
<1>2. ListHeld => NoListWithoutLink
  BY DEF ListHeld
<1> QED
  BY <1>1, <1>2, InitTypeOK, NextTypeOK, NextListHeld, PTL DEF Spec

\* The plugin has the subscription in force whenever nothing is marked dirty,
\* but for a change between session()'s read of it and the clearing of the mark.
THEOREM PluginHasSubscription == Spec => []DeclaredUnlessSlipped
<1>1. Init => Declared
  BY DEF Init, Declared
<1>2. Declared => DeclaredUnlessSlipped
  BY DEF Declared, DeclaredUnlessSlipped
<1> QED
  BY <1>1, <1>2, InitTypeOK, NextTypeOK, NextDeclared, PTL DEF Spec
=============================================================================
