------------------------- MODULE SapConnection_proofs -------------------------
(***************************************************************************)
(* Proofs about SapConnection, for every number of polls, connect-backs    *)
(* and descriptors, with late connections, failures and Ctrl-C or without. *)
(***************************************************************************)
EXTENDS SapConnection, Counting_proofs

MainPcs == {"setup", "started", "dial", "dialing", "poll", "drop", "pick"}

\* BlueZ's queue of calls: what leaves it and what stays are profiles.
LEMMA QueueTyped ==
  ASSUME NEW q \in Seq(Profiles), q # <<>>
  PROVE  Head(q) \in Profiles /\ Tail(q) \in Seq(Profiles)
  OBVIOUS

LEMMA QueueGrows ==
  ASSUME NEW q \in Seq(Profiles), NEW p \in Profiles
  PROVE  Append(q, p) \in Seq(Profiles)
  OBVIOUS

LEMMA CloseTyped ==
  ASSUME TypeOK, NEW f \in Fds \cup {None}, NEW p \in Profiles, CloseFd(f, p)
  PROVE  owner' \in [Fds -> Profiles \cup {"free", "other"}] /\ wrong' \in BOOLEAN
  <1>1. CASE f = None  BY <1>1 DEF CloseFd, TypeOK
  <1>2. CASE f # None
    <2>1. owner' = [owner EXCEPT ![f] = "free"] /\ wrong' = (wrong \/ owner[f] # p)
      BY <1>2 DEF CloseFd
    <2>2. wrong' \in BOOLEAN  BY <2>1 DEF TypeOK
    <2> QED  BY <2>1, <2>2 DEF TypeOK
  <1> QED  BY <1>1, <1>2

\* Closing a descriptor takes it from its owner and touches no other one.
LEMMA CloseFrees ==
  ASSUME TypeOK, NEW x \in Fds \cup {None}, NEW p \in Profiles, CloseFd(x, p)
  PROVE  \A f \in Fds : /\ owner'[f] \in Profiles => owner'[f] = owner[f]
                        /\ owner'[f] = p => f # x
  <1>1. CASE x = None
    <2>1. owner' = owner  BY <1>1, Zenon DEF CloseFd
    <2>2. x \notin Fds  BY <1>1 DEF None, Fds
    <2> QED  BY <2>1, <2>2
  <1>2. CASE x # None
    <2>1. owner' = [owner EXCEPT ![x] = "free"]  BY <1>2, Zenon DEF CloseFd
    <2>2. owner \in [Fds -> Profiles \cup {"free", "other"}]  BY Zenon DEF TypeOK
    <2>3. "free" \notin Profiles  BY DEF Profiles
    <2> QED  BY <2>1, <2>2, <2>3
  <1> QED  BY <1>1, <1>2

LEMMA TypeInit == Init => TypeOK
  <1> SUFFICES ASSUME Init PROVE TypeOK  OBVIOUS
  <1>1. polls \in 0 .. Polls - 1 /\ inbound \in Nat
    BY BoundsAssumption DEF Init
  <1>2. event \in [Profiles -> BOOLEAN]
    BY Zenon DEF Init
  <1>3. calls \in Seq(Profiles)
    BY DEF Init
  <1>4. prof \in [Profiles -> Fds \cup {None}] /\ selfFd \in Fds \cup {None}
        /\ owner \in [Fds -> Profiles \cup {"free", "other"}]
    BY DEF Init
  <1> QED  BY <1>1, <1>2, <1>3, <1>4 DEF Init, TypeOK

LEMMA TypeNext == TypeOK /\ [Next]_vars => TypeOK'
  <1> SUFFICES ASSUME TypeOK, [Next]_vars PROVE TypeOK'  OBVIOUS
  <1> USE BoundsAssumption DEF main, bluez, glib
  <1>1. CASE Setup  BY <1>1 DEF Setup, TypeOK, Profiles
  <1>2. CASE Manage  BY <1>2 DEF Manage, TypeOK
  <1>3. CASE Dial  BY <1>3 DEF Dial, TypeOK
  <1>4. CASE DialReturns  BY <1>4 DEF DialReturns, TypeOK
  <1>5. CASE Poll
    <2>1. pc' \in {"drop", "poll"} /\ UNCHANGED <<managed, selfFd, bluez, glib, calls, owner, wrong>>
      BY <1>5 DEF Poll, TypeOK
    <2>2. polls' \in 0 .. Polls - 1
      BY <1>5 DEF Poll, TypeOK
    <2>3. conn' \in BOOLEAN
      BY <1>5, Zenon DEF Poll, TypeOK, Profiles
    <2> QED  BY <2>1, <2>2, <2>3 DEF TypeOK
  <1>6. CASE Drop
    <2>1. owner' \in [Fds -> Profiles \cup {"free", "other"}] /\ wrong' \in BOOLEAN
      BY <1>6, CloseTyped DEF Drop, TypeOK, Profiles
    <2> QED  BY <1>6, <2>1 DEF Drop, TypeOK
  <1>7. CASE Pick  BY <1>7 DEF Pick, TypeOK, Profiles
  <1>8. CASE Close
    <2>1. owner' \in [Fds -> Profiles \cup {"free", "other"}] /\ wrong' \in BOOLEAN
      BY <1>8, CloseTyped DEF Close, TypeOK, Profiles
    <2>2. pc' \in {"unreg1", "closed"}  BY <1>8 DEF Close, AfterClose
    <2> QED  BY <1>8, <2>1, <2>2 DEF Close, TypeOK
  <1>16. CASE Unregister \/ Quit
    <2>1. reg' \subseteq Profiles  BY <1>16 DEF Unregister, Quit, Kept, TypeOK
    <2> QED  BY <1>16, <2>1 DEF Unregister, Quit, TypeOK
  <1>9. CASE NewConnection
    <2>1. PICK f \in Free : /\ gl' = [p |-> Head(calls), step |-> 1, fd |-> f]
                            /\ owner' = [owner EXCEPT ![f] = Head(calls)]
      BY <1>9 DEF NewConnection
    <2>2. Head(calls) \in Profiles /\ Tail(calls) \in Seq(Profiles)
      BY <1>9, QueueTyped DEF NewConnection, TypeOK
    <2>3. gl' \in [p : Profiles, step : 1 .. 2, fd : Fds]
      BY <2>1, <2>2 DEF Free
    <2> QED  BY <1>9, <2>1, <2>2, <2>3 DEF NewConnection, TypeOK, Free
  <1>10. CASE NewConnectionStep
    <2>1. gl \in [p : Profiles, step : 1 .. 2, fd : Fds]
      BY <1>10 DEF NewConnectionStep, TypeOK
    <2>2. gl' = Idle \/ gl' \in [p : Profiles, step : 1 .. 2, fd : Fds]
      BY <1>10, <2>1 DEF NewConnectionStep
    <2>3. prof' \in [Profiles -> Fds \cup {None}] /\ event' \in [Profiles -> BOOLEAN]
      BY <1>10, <2>1 DEF NewConnectionStep, TypeOK
    <2> QED  BY <1>10, <2>2, <2>3 DEF NewConnectionStep, TypeOK
  <1>11. CASE ClientConnects
    BY <1>11, QueueGrows DEF ClientConnects, TypeOK, Profiles
  <1>12. CASE ServerConnects
    <2>1. calls' \in Seq(Profiles)
      BY <1>12, QueueGrows DEF ServerConnects, TypeOK, Profiles
    <2> QED  BY <1>12, <2>1 DEF ServerConnects, TypeOK
  <1>13. CASE OthersOpen  BY <1>13 DEF OthersOpen, TypeOK, Free
  <1>14. CASE Interrupt  BY <1>14 DEF Interrupt, TypeOK
  <1>15. CASE UNCHANGED vars  BY <1>15 DEF vars, TypeOK
  <1> QED  BY <1>1, <1>2, <1>3, <1>4, <1>5, <1>6, <1>7, <1>8, <1>9, <1>10,
              <1>11, <1>12, <1>13, <1>14, <1>15, <1>16
           DEF Next, Main, Glib, Done

\* Every reachable state of the main thread, the GLib thread and BlueZ is
\* well typed (bluetooth.py SapConnection and SapProfile).
THEOREM TypeCorrect == Spec => []TypeOK
  BY TypeInit, TypeNext, PTL DEF Spec
-----------------------------------------------------------------------------
\* Held(p) depends on four variables only.
LEMMA HeldStays ==
  ASSUME NEW p \in Profiles, Held(p), UNCHANGED <<gl, prof, owner>>
  PROVE  Held(p)'
  BY DEF Held

\* Giving a free descriptor to somebody disturbs no profile's.
LEMMA HeldTaken ==
  ASSUME TypeOK, NEW p \in Profiles, Held(p), NEW f \in Free,
         NEW to \in Profiles \cup {"other"},
         owner' = [owner EXCEPT ![f] = to], prof' = prof,
         \/ gl' = gl
         \/ gl = Idle /\ gl' = [p |-> to, step |-> 1, fd |-> f]
  PROVE  Held(p)'
  <1>1. prof[p] # None => prof[p] # f /\ owner'[prof[p]] = p
    BY DEF Held, Free, TypeOK, Profiles
  <1>2. f # None  BY DEF Free, Fds, None
  <1>3. CASE gl' = gl
    <2>1. gl.p = p => gl.fd # f /\ gl.fd \in Fds
      BY DEF Held, Free, TypeOK, Profiles, Idle
    <2> QED  BY <1>1, <1>3, <2>1 DEF Held, TypeOK
  <1>4. CASE gl' = [p |-> to, step |-> 1, fd |-> f]
    BY <1>1, <1>2, <1>4 DEF Held, Free, TypeOK
  <1> QED  BY <1>3, <1>4

\* Closing a descriptor of one profile disturbs no other profile's.
LEMMA HeldClosed ==
  ASSUME TypeOK, NEW p \in Profiles, NEW q \in Profiles, p # q, Held(p),
         NEW f \in Fds \cup {None}, f # None => owner[f] = q,
         CloseFd(f, q), UNCHANGED <<gl, prof>>
  PROVE  Held(p)' /\ wrong' = wrong
  <1>1. CASE f = None  BY <1>1 DEF CloseFd, Held
  <1>2. CASE f # None
    <2>1. owner' = [owner EXCEPT ![f] = "free"] /\ owner[f] = q
      BY <1>2 DEF CloseFd
    <2>2. wrong' = wrong
      BY <1>2, <2>1, Zenon DEF CloseFd, TypeOK
    <2>3. Held(p)'
      BY <1>2, <2>1 DEF Held, TypeOK, Profiles, Idle
    <2> QED  BY <2>2, <2>3
  <1> QED  BY <1>1, <1>2

LEMMA HoldingInit == Init => Holding
  BY DEF Init, Holding, Held, BeforeDrop, Profiles, Idle, None

LEMMA HoldingNext == TypeOK /\ Holding /\ [Next]_vars => Holding'
  <1> SUFFICES ASSUME TypeOK, Holding, [Next]_vars PROVE Holding'  OBVIOUS
  <1> USE DEF main, bluez, glib
  <1>a. "server" \in Profiles /\ "client" \in Profiles  BY DEF Profiles
  <1>1. CASE Setup \/ Manage \/ Dial \/ DialReturns \/ Interrupt
    <2>1. UNCHANGED <<prof, event, gl, owner, wrong, selfFd, conn>> 
          /\ pc # "opened" /\ BeforeClose
          /\ pc' \in {"started", "dial", "dialing", "poll", "raised"}
      BY <1>1 DEF Setup, Manage, Dial, DialReturns, Interrupt, BeforeClose
    <2>2. BeforeDrop' => BeforeDrop
      BY <1>1 DEF Setup, Manage, Dial, DialReturns, Interrupt, BeforeDrop
    <2> QED  BY <1>a, <2>1, <2>2, HeldStays DEF Holding, BeforeClose
  <1>2. CASE Poll
    <2>1. pc = "poll" /\ pc' \in {"poll", "drop"}
          /\ UNCHANGED <<prof, event, gl, owner, wrong, selfFd>>
      BY <1>2 DEF Poll
    <2>2. conn' => event["server"]
      BY <1>2, Zenon DEF Poll, Holding
    <2> QED  BY <1>a, <2>1, <2>2, HeldStays DEF Holding, BeforeDrop, BeforeClose
  <1>3. CASE Drop
    <2>1. Held("server")' /\ wrong' = wrong
      BY <1>a, <1>3, HeldClosed DEF Drop, Holding, BeforeDrop, BeforeClose, Held, TypeOK
    <2>2. pc' \in {"pick", "none"} /\ (pc' = "pick" => conn)
          /\ UNCHANGED <<selfFd, conn, prof, event>> /\ pc = "drop"
      BY <1>3 DEF Drop
    <2> QED  BY <2>1, <2>2 DEF Holding, BeforeDrop, BeforeClose
  <1>4. CASE Pick
    <2>1. selfFd' = prof["server"] /\ pc = "pick" /\ pc' = "opened"
          /\ UNCHANGED <<prof, event, gl, owner, wrong, conn>>
      BY <1>4 DEF Pick
    <2>2. prof["server"] # None /\ owner[prof["server"]] = "server"
      BY <2>1 DEF Holding, BeforeClose, Held
    <2> QED  BY <1>a, <2>1, <2>2, HeldStays DEF Holding, BeforeDrop, BeforeClose
  <1>5. CASE Close
    <2>1. pc' \in {"unreg1", "closed"} /\ UNCHANGED <<conn, event>>
      BY <1>5 DEF Close, AfterClose
    <2>2. wrong' = wrong
      <3>1. selfFd # None => owner[selfFd] = "server"
        BY <1>5 DEF Close, Ended, BeforeClose, Holding
      <3> QED  BY <1>5, <3>1, Zenon DEF Close, CloseFd, TypeOK
    <2> QED  BY <2>1, <2>2 DEF Holding, BeforeDrop, BeforeClose
  <1>11. CASE Unregister \/ Quit
    <2>1. /\ pc' \in {"unreg2", "quit", "closed"}
          /\ UNCHANGED <<conn, event, wrong>>
      BY <1>11 DEF Unregister, Quit
    <2> QED  BY <2>1 DEF Holding, BeforeDrop, BeforeClose
  <1>6. CASE NewConnection
    <2>1. PICK f \in Free : /\ gl' = [p |-> Head(calls), step |-> 1, fd |-> f]
                            /\ owner' = [owner EXCEPT ![f] = Head(calls)]
      BY <1>6 DEF NewConnection
    <2>2. Head(calls) \in Profiles
      BY <1>6, QueueTyped DEF NewConnection, TypeOK
    <2>3. gl = Idle /\ UNCHANGED <<pc, prof, event, wrong, selfFd, conn>>
      BY <1>6 DEF NewConnection
    <2>4. ASSUME NEW p \in Profiles, Held(p) PROVE Held(p)'
      BY <2>1, <2>2, <2>3, <2>4, HeldTaken
    <2>5. pc = "opened" => owner'[selfFd] = "server"
      BY <2>1 DEF Holding, Free, TypeOK
    <2> QED  BY <1>a, <2>3, <2>4, <2>5 DEF Holding, BeforeDrop, BeforeClose
  <1>7. CASE NewConnectionStep
    <2>1. gl \in [p : Profiles, step : 1 .. 2, fd : Fds]
      BY <1>7 DEF NewConnectionStep, TypeOK
    <2>2. UNCHANGED <<pc, owner, wrong, selfFd, conn>>
      BY <1>7 DEF NewConnectionStep
    <2>3. CASE gl.step = 1
      <3>1. prof' = [prof EXCEPT ![gl.p] = gl.fd] /\ event' = event
            /\ gl' = [gl EXCEPT !.step = 2]
        BY <1>7, <2>3 DEF NewConnectionStep, HandlerOrder
      <3>2. ASSUME NEW p \in Profiles, Held(p) PROVE Held(p)'
        BY <2>1, <2>2, <3>1, <3>2 DEF Held, TypeOK
      <3>3. event["server"] => (prof["server"] # None => prof'["server"] # None)
        BY <2>1, <3>1 DEF TypeOK, Fds, None
      <3> QED  BY <1>a, <2>2, <3>1, <3>2, <3>3 DEF Holding, BeforeDrop, BeforeClose
    <2>4. CASE gl.step = 2
      <3>1. event' = [event EXCEPT ![gl.p] = TRUE] /\ prof' = prof /\ gl' = Idle
        BY <1>7, <2>4 DEF NewConnectionStep, HandlerOrder
      <3>2. ASSUME NEW p \in Profiles, Held(p) PROVE Held(p)'
        BY <2>2, <3>1, <3>2 DEF Held, Idle, Profiles
      <3>3. Held("server") /\ gl.p = "server" => prof["server"] # None
        BY <2>4 DEF Held
      <3>4. event'["server"] => event["server"] \/ gl.p = "server"
        <4>1. CASE gl.p = "server"  BY <4>1
        <4>2. CASE gl.p # "server"
          BY <1>a, <3>1, <4>2, Zenon DEF TypeOK
        <4> QED  BY <4>1, <4>2
      <3>5. event["server"] => event'["server"]
        BY <1>a, <2>1, <3>1, Zenon DEF TypeOK
      <3> QED  BY <1>a, <2>2, <3>1, <3>2, <3>3, <3>4, <3>5 DEF Holding, BeforeDrop, BeforeClose
    <2> QED  BY <2>1, <2>3, <2>4
  <1>8. CASE ClientConnects \/ ServerConnects
    <2>1. UNCHANGED <<pc, prof, event, gl, owner, wrong, selfFd, conn>>
      BY <1>8 DEF ClientConnects, ServerConnects
    <2> QED  BY <1>a, <2>1, HeldStays DEF Holding, BeforeDrop, BeforeClose
  <1>9. CASE OthersOpen
    <2>1. PICK f \in Free : owner' = [owner EXCEPT ![f] = "other"]
      BY <1>9 DEF OthersOpen
    <2>2. UNCHANGED <<pc, prof, event, gl, wrong, selfFd, conn>>
      BY <1>9 DEF OthersOpen
    <2>3. ASSUME NEW p \in Profiles, Held(p) PROVE Held(p)'
      BY <2>1, <2>2, <2>3, HeldTaken
    <2>4. pc = "opened" => owner'[selfFd] = "server"
      BY <2>1 DEF Holding, Free, TypeOK
    <2> QED  BY <1>a, <2>2, <2>3, <2>4 DEF Holding, BeforeDrop, BeforeClose
  <1>10. CASE UNCHANGED vars
    <2>1. UNCHANGED <<pc, prof, event, gl, owner, wrong, selfFd, conn>>
      BY <1>10 DEF vars
    <2> QED  BY <1>a, <2>1, HeldStays DEF Holding, BeforeDrop, BeforeClose
  <1> QED  BY <1>1, <1>2, <1>3, <1>4, <1>5, <1>6, <1>7, <1>8, <1>9, <1>10, <1>11
           DEF Next, Main, Glib, Done

\* Until it is closed, what the GLib thread stored for a profile is the open
\* descriptor of a connection of that profile (SapProfile.NewConnection).
THEOREM HoldingIsInvariant == Spec => []Holding
  <1>1. TypeOK /\ Holding /\ TypeOK' /\ [Next]_vars => Holding'
    BY HoldingNext
  <1> QED  BY <1>1, HoldingInit, TypeCorrect, PTL DEF Spec

\* open (bluetooth.py:142) returns the open descriptor of a connect-back:
\* the GLib thread stores it before it sets the event that open polls.
THEOREM OpenReturnsAnInbound == Spec => []ReturnsInbound
  <1>1. Holding => ReturnsInbound  BY DEF Holding, ReturnsInbound
  <1> QED  BY <1>1, HoldingIsInvariant, PTL

\* No os.close (bluetooth.py:137 and :150) hits a descriptor whose number
\* now belongs to somebody else.
THEOREM NoForeignClose == Spec => []ClosesOwn
  <1>1. Holding => ClosesOwn  BY DEF Holding, ClosesOwn
  <1> QED  BY <1>1, HoldingIsInvariant, PTL

-----------------------------------------------------------------------------
(* What becomes of the outbound connection, made once at most.             *)

\* How many of a profile's connections are under way, and how many handled.
Under(p) == CountOf(calls, p) + IF gl.p = p THEN 1 ELSE 0
Came(p) == IF event[p] THEN 1 ELSE 0

\* Of k connections, at most one, the descriptor is in the callback's hand or
\* stored; nothing else belongs to the profile.
Once(p, k) ==
  /\ Under(p) + Came(p) = k
  /\ gl.p = p /\ gl.step = 2 => prof[p] = gl.fd
  /\ \A f \in Fds : owner[f] = p => \/ gl.p = p /\ f = gl.fd
                                    \/ event[p] /\ f = prof[p]

LEMMA OnceStays ==
  ASSUME NEW p \in Profiles, NEW k, Once(p, k), UNCHANGED <<calls, gl, prof, event>>,
         \A f \in Fds : owner'[f] = p => owner[f] = p
  PROVE  Once(p, k)'
  BY DEF Once, Under, Came

LEMMA OnceGlib ==
  ASSUME TypeOK, NEW p \in Profiles, NEW k \in {0, 1}, Once(p, k), Glib
  PROVE  Once(p, k)'
  <1> USE DEF glib, main, bluez
  <1>1. calls \in Seq(Profiles) /\ CountOf(calls, p) \in Nat
    BY CountIsNat DEF TypeOK
  <1>2. Idle.p # p  BY DEF Idle, Profiles
  <1>3. CASE NewConnection
    <2>1. PICK f \in Free : /\ gl' = [p |-> Head(calls), step |-> 1, fd |-> f]
                            /\ owner' = [owner EXCEPT ![f] = Head(calls)]
      BY <1>3 DEF NewConnection
    <2>2. /\ gl = Idle /\ calls # <<>> /\ calls' = Tail(calls)
          /\ UNCHANGED <<prof, event>>
      BY <1>3 DEF NewConnection
    <2>3. CountOf(calls, p) = CountOf(Tail(calls), p) + IF Head(calls) = p THEN 1 ELSE 0
      BY <1>1, <2>2, CountTail
    <2>4. CountOf(Tail(calls), p) \in Nat
      <3>1. Tail(calls) \in Seq(Profiles)  BY <1>1, <2>2, QueueTyped
      <3> QED  BY <3>1, CountIsNat
    <2>5. Under(p)' = Under(p)
      BY <1>1, <1>2, <2>1, <2>2, <2>3, <2>4 DEF Under
    <2>6. Came(p)' = Came(p)  BY <2>2 DEF Came
    <2>7. \A g \in Fds : owner'[g] = p => \/ gl'.p = p /\ g = gl'.fd
                                          \/ event'[p] /\ g = prof'[p]
      <3> SUFFICES ASSUME NEW g \in Fds, owner'[g] = p
                   PROVE  (gl'.p = p /\ g = gl'.fd) \/ (event'[p] /\ g = prof'[p])
        OBVIOUS
      <3>1. CASE g = f  BY <2>1, <3>1 DEF Free, TypeOK
      <3>2. CASE g # f
        <4>1. owner[g] = p  BY <2>1, <3>2 DEF TypeOK
        <4> QED  BY <1>2, <2>2, <4>1 DEF Once
      <3> QED  BY <3>1, <3>2
    <2> QED  BY <2>1, <2>5, <2>6, <2>7 DEF Once
  <1>4. CASE NewConnectionStep
    <2>1. gl \in [p : Profiles, step : 1 .. 2, fd : Fds] /\ UNCHANGED <<calls, owner>>
      BY <1>4 DEF NewConnectionStep, TypeOK
    <2>2. gl.p = p => ~event[p]  BY <1>1 DEF Once, Under, Came
    <2>3. CASE gl.step = 1
      <3>1. /\ prof' = [prof EXCEPT ![gl.p] = gl.fd] /\ event' = event
            /\ gl' = [gl EXCEPT !.step = 2]
        BY <1>4, <2>3 DEF NewConnectionStep, HandlerOrder
      <3>2. gl'.p = gl.p /\ gl'.fd = gl.fd  BY <2>1, <3>1
      <3>3. Under(p)' = Under(p) /\ Came(p)' = Came(p)
        BY <2>1, <3>1, <3>2 DEF Under, Came
      <3>4. gl.p = p => prof'[p] = gl.fd  BY <3>1 DEF TypeOK
      <3>5. gl.p # p => prof'[p] = prof[p]  BY <3>1 DEF TypeOK
      <3>6. CASE gl.p = p
        BY <2>1, <2>2, <3>1, <3>2, <3>3, <3>4, <3>6 DEF Once
      <3>7. CASE gl.p # p
        BY <2>1, <3>1, <3>2, <3>3, <3>5, <3>7 DEF Once
      <3> QED  BY <3>6, <3>7
    <2>4. CASE gl.step = 2
      <3>1. event' = [event EXCEPT ![gl.p] = TRUE] /\ prof' = prof /\ gl' = Idle
        BY <1>4, <2>4 DEF NewConnectionStep, HandlerOrder
      <3>2. CASE gl.p = p
        <4>1. event'[p] = TRUE  BY <3>1, <3>2 DEF TypeOK
        <4>2. Under(p)' + Came(p)' = Under(p) + Came(p)
          BY <1>1, <1>2, <2>1, <2>2, <3>1, <3>2, <4>1 DEF Under, Came
        <4> QED  BY <1>2, <2>1, <2>2, <2>4, <3>1, <3>2, <4>1, <4>2 DEF Once
      <3>3. CASE gl.p # p
        <4>1. event'[p] = event[p]  BY <3>1, <3>3, Zenon DEF TypeOK
        <4>2. Under(p)' + Came(p)' = Under(p) + Came(p)
          BY <1>1, <1>2, <2>1, <3>1, <3>3, <4>1 DEF Under, Came
        <4> QED  BY <1>2, <2>1, <3>1, <3>3, <4>1, <4>2 DEF Once
      <3> QED  BY <3>2, <3>3
    <2> QED  BY <2>1, <2>3, <2>4
  <1> QED  BY <1>3, <1>4 DEF Glib

\* Another connection of the profile, or of the other one.
LEMMA OnceQueued ==
  ASSUME TypeOK, NEW p \in Profiles, NEW q \in Profiles, NEW k \in {0, 1}, Once(p, k),
         calls' = Append(calls, q), UNCHANGED <<glib, owner>>
  PROVE  /\ q = p => Once(p, k + 1)'
         /\ q # p => Once(p, k)'
  <1>1. calls \in Seq(Profiles) /\ CountOf(calls, p) \in Nat
    BY CountIsNat DEF TypeOK
  <1>2. CountOf(calls', p) = CountOf(calls, p) + IF q = p THEN 1 ELSE 0
    BY <1>1, CountAppend
  <1>3. UNCHANGED <<gl, prof, event, owner>>  BY DEF glib
  <1>4. Under(p)' + Came(p)' = Under(p) + Came(p) + IF q = p THEN 1 ELSE 0
    BY <1>1, <1>2, <1>3 DEF Under, Came
  <1>5. Under(p)' + Came(p)' = k + IF q = p THEN 1 ELSE 0
    BY <1>4 DEF Once
  <1>6. k + 0 = k  OBVIOUS
  <1> QED  BY <1>3, <1>5, <1>6 DEF Once

\* Once the connection is handled, the callback touches the profile no more.
LEMMA Settled ==
  ASSUME TypeOK, NEW p \in Profiles, Once(p, 1), event[p], Glib
  PROVE  /\ event'[p] /\ Under(p)' = 0 /\ prof'[p] = prof[p]
         /\ \A f \in Fds : owner'[f] = p => owner[f] = p
  <1> USE DEF glib, main, bluez
  <1>1. calls \in Seq(Profiles) /\ CountOf(calls, p) \in Nat
    BY CountIsNat DEF TypeOK
  <1>2. gl.p # p  BY <1>1 DEF Once, Under, Came
  <1>3. Once(p, 1)'  BY OnceGlib
  <1>4. event'[p] /\ prof'[p] = prof[p]
    <2>1. CASE NewConnection  BY <2>1 DEF NewConnection
    <2>2. CASE NewConnectionStep
      <3>1. gl.p # p => prof'[p] = prof[p]
        BY <2>2 DEF NewConnectionStep, TypeOK
      <3>2. gl.p # p => event'[p] = event[p]
        BY <2>2, Zenon DEF NewConnectionStep, TypeOK
      <3> QED  BY <1>2, <3>1, <3>2
    <2> QED  BY <2>1, <2>2 DEF Glib
  <1>5. Under(p)' \in Nat
    <2>1. calls' \in Seq(Profiles)
      BY <1>1, QueueTyped DEF Glib, NewConnection, NewConnectionStep
    <2>2. CountOf(calls', p) \in Nat  BY <2>1, CountIsNat
    <2> QED  BY <2>2 DEF Under
  <1>6. Under(p)' = 0  BY <1>3, <1>4, <1>5 DEF Once, Came
  <1>7. gl'.p # p
    <2>1. calls' \in Seq(Profiles)
      BY <1>1, QueueTyped DEF Glib, NewConnection, NewConnectionStep
    <2>2. CountOf(calls', p) \in Nat  BY <2>1, CountIsNat
    <2> QED  BY <1>6, <2>2 DEF Under
  <1>8. \A f \in Fds : owner'[f] = p => owner[f] = p
    <2>1. CASE NewConnection
      <3>1. PICK f \in Free : /\ gl' = [p |-> Head(calls), step |-> 1, fd |-> f]
                              /\ owner' = [owner EXCEPT ![f] = Head(calls)]
        BY <2>1 DEF NewConnection
      <3>2. Head(calls) # p  BY <1>7, <3>1
      <3> QED  BY <3>1, <3>2 DEF TypeOK, Free
    <2>2. CASE NewConnectionStep  BY <2>2 DEF NewConnectionStep
    <2> QED  BY <2>1, <2>2 DEF Glib
  <1> QED  BY <1>4, <1>6, <1>8

\* Why the outbound descriptor is gone when open returns: the one connection
\* of the client profile is accounted for at every moment; open goes on only
\* when its descriptor is stored, and Drop closes it.
PastDrop == pc \in {"pick", "opened", "none"}
PastDial == pc \in {"poll", "drop"} \/ PastDrop
Outbound ==
  /\ pc \in {"setup", "started", "dial"} => dial = "no"
  /\ PastDial => dial # "calling"
  /\ dial \in {"no", "calling", "late"} => Once("client", 0)
  /\ dial = "up" => Once("client", 1)
  /\ dial = "up" /\ PastDial => event["client"]
  /\ dial = "up" /\ PastDrop => \A f \in Fds : owner[f] # "client"

LEMMA OutboundInit == Init => Outbound
  <1> SUFFICES ASSUME Init PROVE Outbound  OBVIOUS
  <1>1. Once("client", 0)
    <2>1. CountOf(calls, "client") = 0  BY CountEmpty DEF Init
    <2>2. gl.p # "client" /\ ~event["client"] /\ \A f \in Fds : owner[f] # "client"
      BY DEF Init, Idle, Profiles
    <2> QED  BY <2>1, <2>2 DEF Once, Under, Came
  <1> QED  BY <1>1 DEF Init, Outbound, PastDial, PastDrop

\* A handled client: nothing of it is queued or in hand.
LEMMA HandledCame ==
  ASSUME TypeOK, Once("client", 1), Handled("client")
  PROVE  event["client"]
  <1>1. {i \in DOMAIN calls : calls[i] = "client"} = {}  BY DEF Handled
  <1>2. CountOf(calls, "client") = 0  BY <1>1, FS_EmptySet DEF CountOf
  <1> QED  BY <1>2 DEF Once, Under, Came, Handled

LEMMA OutboundMain ==
  ASSUME TypeOK, Holding, Outbound, Main \/ Interrupt
  PROVE  Outbound'
  <1> USE DEF main, bluez, glib, PastDial, PastDrop
  <1>a. "server" \in Profiles /\ "client" \in Profiles  BY DEF Profiles
  <1>b. ASSUME NEW k, Once("client", k), UNCHANGED <<calls, gl, prof, event, owner>>
        PROVE  Once("client", k)'
    BY <1>a, <1>b, OnceStays
  <1>1. CASE Setup \/ Manage \/ Interrupt \/ Unregister \/ Quit
    <2>1. /\ UNCHANGED <<calls, gl, prof, event, owner, dial>>
          /\ pc' \in {"started", "dial", "raised", "unreg2", "quit", "closed"}
          /\ pc' \in {"started", "dial"} => pc \in {"setup", "started"}
      BY <1>1 DEF Setup, Manage, Interrupt, Unregister, Quit
    <2> QED  BY <1>b, <2>1 DEF Outbound
  <1>2. CASE Dial
    <2>1. /\ UNCHANGED <<calls, gl, prof, event, owner>>
          /\ pc = "dial" /\ pc' = "dialing" /\ dial' = "calling"
      BY <1>2 DEF Dial
    <2>2. Once("client", 0)'  BY <1>b, <2>1 DEF Outbound
    <2> QED  BY <2>1, <2>2 DEF Outbound
  <1>3. CASE DialReturns
    <2>1. /\ UNCHANGED <<calls, gl, prof, event, owner>>
          /\ pc = "dialing" /\ pc' = "poll"
      BY <1>3 DEF DialReturns
    <2>2. CASE dial = "up" /\ Handled("client") /\ dial' = dial
      <3>1. event["client"]  BY <2>2, HandledCame DEF Outbound
      <3> QED  BY <1>b, <2>1, <2>2, <3>1 DEF Outbound
    <2>3. CASE dial = "calling" /\ dial' \in {"over", "late"}
      <3>1. Once("client", 0)'  BY <1>b, <2>1, <2>3 DEF Outbound
      <3> QED  BY <2>1, <2>3, <3>1 DEF Outbound
    <2> QED  BY <1>3, <2>2, <2>3 DEF DialReturns
  <1>4. CASE Poll \/ Pick
    <2>1. /\ UNCHANGED <<calls, gl, prof, event, owner, dial>>
          /\ (pc = "poll" /\ pc' \in {"poll", "drop"}) \/ (pc = "pick" /\ pc' = "opened")
      BY <1>4 DEF Poll, Pick
    <2> QED  BY <1>b, <2>1 DEF Outbound
  <1>5. CASE Drop
    <2>1. /\ UNCHANGED <<calls, gl, prof, event, dial>>
          /\ pc = "drop" /\ pc' \in {"pick", "none"} /\ CloseFd(prof["client"], "client")
      BY <1>5 DEF Drop
    <2>2. \A f \in Fds : /\ owner'[f] \in Profiles => owner'[f] = owner[f]
                         /\ owner'[f] = "client" => f # prof["client"]
      <3>1. prof["client"] \in Fds \cup {None} /\ "client" \in Profiles
        BY DEF TypeOK, Profiles
      <3>2. TypeOK /\ CloseFd(prof["client"], "client")  BY <2>1
      <3> QED  BY <3>1, <3>2, CloseFrees, Zenon
    <2>3. ASSUME NEW k, Once("client", k) PROVE Once("client", k)'
      BY <1>a, <2>1, <2>2, <2>3, OnceStays
    <2>4. dial = "up" => \A f \in Fds : owner'[f] # "client"
      <3> SUFFICES ASSUME dial = "up", NEW f \in Fds, owner'[f] = "client" PROVE FALSE
        OBVIOUS
      <3>1. Once("client", 1) /\ event["client"]  BY <2>1 DEF Outbound
      <3>2. owner[f] = "client" /\ f # prof["client"]  BY <1>a, <2>2
      <3>3. gl.p # "client"
        <4>1. CountOf(calls, "client") \in Nat  BY CountIsNat DEF TypeOK
        <4> QED  BY <3>1, <4>1 DEF Once, Under, Came
      <3> QED  BY <3>1, <3>2, <3>3 DEF Once
    <2> QED  BY <2>1, <2>3, <2>4 DEF Outbound
  <1>6. CASE Close
    <2>1. /\ UNCHANGED <<calls, gl, prof, event, dial>>
          /\ pc' \in {"unreg1", "closed"} /\ CloseFd(selfFd, "server")
      BY <1>6 DEF Close, AfterClose
    <2>2. \A f \in Fds : owner'[f] \in Profiles => owner'[f] = owner[f]
      <3>1. selfFd \in Fds \cup {None} /\ "server" \in Profiles  BY DEF TypeOK, Profiles
      <3>2. TypeOK /\ CloseFd(selfFd, "server")  BY <2>1
      <3> QED  BY <3>1, <3>2, CloseFrees, Zenon
    <2>3. ASSUME NEW k, Once("client", k) PROVE Once("client", k)'
      BY <1>a, <2>1, <2>2, <2>3, OnceStays
    <2> QED  BY <2>1, <2>3 DEF Outbound
  <1> QED  BY <1>1, <1>2, <1>3, <1>4, <1>5, <1>6 DEF Main

LEMMA OutboundGlib ==
  ASSUME TypeOK, Outbound, Glib
  PROVE  Outbound'
  <1>1. UNCHANGED <<pc, dial>>
    BY DEF Glib, NewConnection, NewConnectionStep, main, bluez
  <1>2. "client" \in Profiles  BY DEF Profiles
  <1>3. ASSUME NEW k \in {0, 1}, Once("client", k) PROVE Once("client", k)'
    BY <1>2, <1>3, OnceGlib
  <1>4. dial = "up" /\ PastDial =>
          event'["client"] /\ \A f \in Fds : owner'[f] = "client" => owner[f] = "client"
    BY <1>2, Settled DEF Outbound
  <1>5. (PastDial' <=> PastDial) /\ (PastDrop' <=> PastDrop) /\ (PastDrop => PastDial)
    BY <1>1 DEF PastDrop, PastDial
  <1> QED  BY <1>1, <1>3, <1>4, <1>5 DEF Outbound

LEMMA OutboundNext == TypeOK /\ Holding /\ Outbound /\ [Next]_vars => Outbound'
  <1> SUFFICES ASSUME TypeOK, Holding, Outbound, [Next]_vars PROVE Outbound'  OBVIOUS
  <1>a. "server" \in Profiles /\ "client" \in Profiles  BY DEF Profiles
  <1>1. CASE Main \/ Interrupt  BY <1>1, OutboundMain
  <1>2. CASE Glib  BY <1>2, OutboundGlib
  <1>3. CASE ClientConnects
    <2>1. /\ UNCHANGED <<pc, glib, owner>> /\ calls' = Append(calls, "client")
          /\ UNCHANGED <<gl, prof, event>>
      BY <1>3 DEF ClientConnects, main, glib
    <2>2. /\ dial \in {"calling", "late"} /\ dial' \in {"up", "over"}
          /\ dial' = "up" => dial = "calling"
      BY <1>3 DEF ClientConnects
    <2>3. Once("client", 0)  BY <2>2 DEF Outbound
    <2>4. Once("client", 1)'  BY <1>a, <2>1, <2>3, OnceQueued
    <2> QED  BY <2>1, <2>2, <2>4 DEF Outbound, PastDial, PastDrop
  <1>4. CASE ServerConnects
    <2>1. /\ UNCHANGED <<pc, dial, glib, owner>> /\ calls' = Append(calls, "server")
          /\ UNCHANGED <<gl, prof, event>>
      BY <1>4 DEF ServerConnects, main, glib, TypeOK
    <2>2. ASSUME NEW k \in {0, 1}, Once("client", k) PROVE Once("client", k)'
      BY <1>a, <2>1, <2>2, OnceQueued
    <2> QED  BY <2>1, <2>2 DEF Outbound, PastDial, PastDrop
  <1>5. CASE OthersOpen \/ UNCHANGED vars
    <2>1. UNCHANGED <<pc, dial, calls, gl, prof, event>>
      BY <1>5 DEF OthersOpen, vars, main, bluez, glib
    <2>2. \A f \in Fds : owner'[f] = "client" => owner[f] = "client"
      BY <1>5 DEF OthersOpen, vars, TypeOK, Profiles, Free
    <2>3. ASSUME NEW k, Once("client", k) PROVE Once("client", k)'
      BY <1>a, <2>1, <2>2, <2>3, OnceStays
    <2> QED  BY <2>1, <2>2, <2>3 DEF Outbound, PastDial, PastDrop
  <1> QED  BY <1>1, <1>2, <1>3, <1>4, <1>5 DEF Next, Done
-----------------------------------------------------------------------------
\* The camera's connections: each is queued, held, or the one close closed.
ClosedOne == IF selfFd # None /\ ~BeforeClose THEN 1 ELSE 0
Tally == Cardinality(Owned("server")) + CountOf(calls, "server") + ClosedOne = inbound

LEMMA OwnedFinite == IsFiniteSet(Owned("server")) /\ Cardinality(Owned("server")) \in Nat
  <1>1. IsFiniteSet(Fds)  BY FS_Interval, BoundsAssumption DEF Fds
  <1>2. IsFiniteSet(Owned("server"))  BY <1>1, FS_Subset DEF Owned
  <1> QED  BY <1>2, FS_CardinalityType

LEMMA TallyInit == Init => Tally
  <1> SUFFICES ASSUME Init PROVE Tally  OBVIOUS
  <1>1. CountOf(calls, "server") = 0  BY CountEmpty DEF Init
  <1>2. Owned("server") = {}  BY DEF Init, Owned
  <1>3. Cardinality(Owned("server")) = 0  BY <1>2, FS_EmptySet
  <1> QED  BY <1>1, <1>3 DEF Init, Tally, ClosedOne

\* Tally is kept if each of its parts is.
LEMMA TallyStays ==
  ASSUME Tally, UNCHANGED <<calls, inbound>>, Owned("server")' = Owned("server"),
         ClosedOne' = ClosedOne
  PROVE  Tally'
  BY DEF Tally

\* The GLib thread takes a call and its descriptor.
LEMMA TallyTaken == TypeOK /\ Tally /\ NewConnection => Tally'
  <1> SUFFICES ASSUME TypeOK, Tally, NewConnection PROVE Tally'  OBVIOUS
  <1>1. PICK f \in Free : owner' = [owner EXCEPT ![f] = Head(calls)]
    BY DEF NewConnection
  <1>2. calls \in Seq(Profiles) /\ calls # <<>> /\ calls' = Tail(calls)
        /\ Head(calls) \in Profiles /\ Tail(calls) \in Seq(Profiles)
    BY QueueTyped DEF NewConnection, TypeOK
  <1>3. CountOf(calls, "server")
          = CountOf(calls', "server") + IF Head(calls) = "server" THEN 1 ELSE 0
    BY <1>2, CountTail
  <1>4. CountOf(calls', "server") \in Nat  BY <1>2, CountIsNat
  <1>5. UNCHANGED <<pc, selfFd, inbound>>  BY DEF NewConnection, main, bluez
  <1>6. ClosedOne' = ClosedOne /\ ClosedOne \in Nat  BY <1>5 DEF ClosedOne, BeforeClose
  <1>7. f \in Fds /\ owner[f] = "free"  BY DEF Free
  <1>8. owner \in [Fds -> Profiles \cup {"free", "other"}]  BY DEF TypeOK
  <1>9. CASE Head(calls) = "server"
    <2>1. f \notin Owned("server")  BY <1>7 DEF Owned
    <2>2. Owned("server")' = Owned("server") \cup {f}  BY <1>1, <1>7, <1>8, <1>9 DEF Owned
    <2>3. Cardinality(Owned("server")') = Cardinality(Owned("server")) + 1
      BY <2>1, <2>2, OwnedFinite, FS_AddElement
    <2> QED  BY <1>3, <1>4, <1>5, <1>6, <1>9, <2>3, OwnedFinite DEF Tally
  <1>10. CASE Head(calls) # "server"
    <2>1. Owned("server")' = Owned("server")  BY <1>1, <1>7, <1>8, <1>10 DEF Owned
    <2> QED  BY <1>3, <1>4, <1>5, <1>6, <1>10, <2>1 DEF Tally
  <1> QED  BY <1>9, <1>10

\* close closes the descriptor that open returned, a server one.
LEMMA TallyClosed == TypeOK /\ Holding /\ Tally /\ Close => Tally'
  <1> SUFFICES ASSUME TypeOK, Holding, Tally, Close PROVE Tally'  OBVIOUS
  <1>1. /\ UNCHANGED <<selfFd, calls, inbound>> /\ CloseFd(selfFd, "server")
        /\ BeforeClose /\ ~BeforeClose'
    BY DEF Close, Ended, AfterClose, BeforeClose, bluez
  <1>2. owner \in [Fds -> Profiles \cup {"free", "other"}] /\ selfFd \in Fds \cup {None}
    BY DEF TypeOK
  <1>3. CASE selfFd = None
    <2>1. Owned("server")' = Owned("server")  BY <1>1, <1>3 DEF CloseFd, Owned
    <2>2. ClosedOne' = ClosedOne  BY <1>1, <1>3 DEF ClosedOne
    <2> QED  BY <1>1, <2>1, <2>2, TallyStays
  <1>4. CASE selfFd # None
    <2>1. owner[selfFd] = "server" /\ selfFd \in Fds  BY <1>1, <1>2, <1>4 DEF Holding
    <2>2. owner' = [owner EXCEPT ![selfFd] = "free"]  BY <1>1, <1>4 DEF CloseFd
    <2>3. Owned("server")' = Owned("server") \ {selfFd} /\ selfFd \in Owned("server")
      BY <1>2, <2>1, <2>2 DEF Owned
    <2>4. Cardinality(Owned("server")') = Cardinality(Owned("server")) - 1
      BY <2>3, OwnedFinite, FS_RemoveElement
    <2>5. ClosedOne = 0 /\ ClosedOne' = 1  BY <1>1, <1>4 DEF ClosedOne
    <2>6. CountOf(calls, "server") \in Nat  BY CountIsNat DEF TypeOK
    <2> QED  BY <1>1, <2>4, <2>5, <2>6, OwnedFinite DEF Tally
  <1> QED  BY <1>3, <1>4

LEMMA TallyNext == TypeOK /\ Holding /\ Tally /\ [Next]_vars => Tally'
  <1> SUFFICES ASSUME TypeOK, Holding, Tally, [Next]_vars PROVE Tally'  OBVIOUS
  <1> USE DEF main, bluez, glib
  <1>1. CASE Setup \/ Manage \/ Dial \/ DialReturns \/ Poll \/ Interrupt
    <2>1. UNCHANGED <<calls, inbound, owner, selfFd>> /\ BeforeClose /\ BeforeClose'
      BY <1>1 DEF Setup, Manage, Dial, DialReturns, Poll, Interrupt, BeforeClose
    <2> QED  BY <2>1, TallyStays DEF Owned, ClosedOne
  <1>2. CASE Drop
    <2>1. UNCHANGED <<calls, inbound, selfFd>> /\ BeforeClose /\ BeforeClose'
      BY <1>2 DEF Drop, BeforeClose
    <2>2. Owned("server")' = Owned("server")
      <3>1. CloseFd(prof["client"], "client")
            /\ (prof["client"] # None => owner[prof["client"]] = "client")
        BY <1>2 DEF Drop, Holding, BeforeDrop, Held
      <3> QED  BY <3>1 DEF CloseFd, Owned, TypeOK
    <2> QED  BY <2>1, <2>2, TallyStays DEF ClosedOne
  <1>3. CASE Pick
    <2>1. UNCHANGED <<calls, inbound, owner>> /\ BeforeClose /\ BeforeClose'
      BY <1>3 DEF Pick, BeforeClose
    <2> QED  BY <2>1, TallyStays DEF Owned, ClosedOne
  <1>4. CASE Close  BY <1>4, TallyClosed
  <1>5. CASE Unregister \/ Quit
    <2>1. UNCHANGED <<calls, inbound, owner, selfFd>> /\ ~BeforeClose /\ ~BeforeClose'
      BY <1>5 DEF Unregister, Quit, BeforeClose
    <2> QED  BY <2>1, TallyStays DEF Owned, ClosedOne
  <1>6. CASE NewConnection  BY <1>6, TallyTaken
  <1>7. CASE NewConnectionStep \/ UNCHANGED vars
    <2>1. UNCHANGED <<calls, inbound, owner, selfFd, pc>>
      BY <1>7 DEF NewConnectionStep, vars
    <2> QED  BY <2>1, TallyStays DEF Owned, ClosedOne, BeforeClose
  <1>8. CASE ClientConnects \/ ServerConnects
    <2>1. PICK p \in Profiles : /\ calls' = Append(calls, p)
                                /\ inbound' = inbound + IF p = "server" THEN 1 ELSE 0
      BY <1>8 DEF ClientConnects, ServerConnects, Profiles, TypeOK
    <2>2. UNCHANGED <<owner, selfFd, pc>>  BY <1>8 DEF ClientConnects, ServerConnects
    <2>3. calls \in Seq(Profiles) /\ CountOf(calls, "server") \in Nat
      BY CountIsNat DEF TypeOK
    <2>4. CountOf(calls', "server") = CountOf(calls, "server") + IF p = "server" THEN 1 ELSE 0
      BY <2>1, <2>3, CountAppend
    <2>5. Owned("server")' = Owned("server") /\ ClosedOne' = ClosedOne /\ ClosedOne \in Nat
      BY <2>2 DEF Owned, ClosedOne, BeforeClose
    <2> QED  BY <2>1, <2>3, <2>4, <2>5, OwnedFinite DEF Tally, TypeOK
  <1>9. CASE OthersOpen
    <2>1. UNCHANGED <<calls, inbound, selfFd, pc>>  BY <1>9 DEF OthersOpen
    <2>2. Owned("server")' = Owned("server")
      BY <1>9 DEF OthersOpen, Owned, Free, TypeOK
    <2> QED  BY <2>1, <2>2, TallyStays DEF ClosedOne, BeforeClose
  <1> QED  BY <1>1, <1>2, <1>3, <1>4, <1>5, <1>6, <1>7, <1>8, <1>9
           DEF Next, Main, Glib, Done

\* However open ended and whatever BlueZ and the camera did meanwhile: the
\* outbound descriptor that came in time is closed when open returns
\* (bluetooth.py:137), and close (:150) closes exactly the connection that
\* open returned; every other connection of the camera's is still held, or
\* its call still queued, so two connect-backs, or one after the last poll,
\* leave a descriptor open.
THEOREM AllIsAccountedFor == Spec => []Released
  <1>1. Outbound /\ Tally => Released
    <2> SUFFICES ASSUME Outbound, Tally PROVE Released  OBVIOUS
    <2>1. pc \in {"opened", "none"} /\ dial = "up" => Owned("client") = {}
      BY DEF Outbound, PastDrop, Owned
    <2>2. pc = "closed" => ClosedOne = Returned  BY DEF ClosedOne, Returned, BeforeClose
    <2> QED  BY <2>1, <2>2 DEF Tally, Released
  <1>2. TypeOK /\ Holding /\ [Next]_vars /\ Outbound /\ Tally => Outbound' /\ Tally'
    BY OutboundNext, TallyNext
  <1> QED  BY <1>1, <1>2, OutboundInit, TallyInit, TypeCorrect, HoldingIsInvariant, PTL DEF Spec
=============================================================================
