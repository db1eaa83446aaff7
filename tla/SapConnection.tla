---------------------------- MODULE SapConnection ----------------------------
(***************************************************************************)
(* SapConnection and SapProfile (bluetooth.py): how the RFCOMM descriptor  *)
(* of the camera's connect-back gets from BlueZ, through the GLib thread,  *)
(* to the main thread, and who closes what.                                *)
(*                                                                         *)
(* Descriptors are small numbers that the kernel uses again once closed;   *)
(* other parts of the program open descriptors too.                        *)
(***************************************************************************)
EXTENDS Naturals, Sequences, FiniteSets, Counting

CONSTANTS
  Polls,        \* callback_timeout: how often the main thread looks (20)
  MaxInbound,   \* bound: how often the camera connects back
  LateClient,   \* may the outbound connection come up after ConnectProfile
                \* has failed ("may still work")?
  Failures,     \* may registering, ConnectProfile, or unregistering, fail?
  Interrupts,   \* may Ctrl-C end open()?
  MaxFd         \* bound: descriptors the process can have

Profiles == {"client", "server"}
None == 0
Fds == 1 .. MaxFd

ASSUME BoundsAssumption == Polls \in Nat \ {0} /\ MaxInbound \in Nat /\ MaxFd \in Nat

VARIABLES
  pc,       \* where the main thread is in open, close and cleanup_dbus
  polls,    \* polls done
  managed,  \* self._manager and self._loop are set
  selfFd,   \* self.fd
  reg,      \* profiles registered with BlueZ
  prof,     \* SapProfile.fd of each profile
  event,    \* SapProfile.connection_event of each profile
  conn,     \* what open made of the polling: connected
  calls,    \* NewConnection calls BlueZ has made and GLib has not begun
  gl,       \* the call the GLib thread is in: [p, step, fd]
  dial,     \* the outbound connection, as BlueZ sees it
  inbound,  \* connect-backs so far
  owner,    \* who each descriptor belongs to
  wrong     \* was a descriptor closed that was not the closer's?

main == <<pc, polls, managed, selfFd, conn>>
bluez == <<reg, dial, inbound>>
glib == <<prof, event, gl>>
vars == <<main, bluez, glib, calls, owner, wrong>>

Idle == [p |-> "none", step |-> 0, fd |-> None]

Init == /\ pc = "setup" /\ polls = 0 /\ managed = FALSE
        /\ selfFd = None /\ conn = FALSE
        /\ reg = {} /\ dial = "no" /\ inbound = 0
        /\ prof = [p \in Profiles |-> None]
        /\ event = [p \in Profiles |-> FALSE]
        /\ gl = Idle /\ calls = <<>>
        /\ owner = [f \in Fds |-> "free"]
        /\ wrong = FALSE

-----------------------------------------------------------------------------
(* BlueZ and the rest of the program (external), which leaves a descriptor *)
(* for every connection.                                                   *)

\* The outbound connection comes up while ConnectProfile runs, or later.
ClientConnects == /\ dial \in {"calling", "late"} /\ "client" \in reg
                  /\ dial' = IF dial = "calling" THEN "up" ELSE "over"
                  /\ calls' = Append(calls, "client")
                  /\ UNCHANGED <<main, reg, inbound, glib, owner, wrong>>

\* The camera connects back, and may do so again.
ServerConnects == /\ "server" \in reg /\ inbound < MaxInbound
                  /\ inbound' = inbound + 1
                  /\ calls' = Append(calls, "server")
                  /\ UNCHANGED <<main, reg, dial, glib, owner, wrong>>

Free == {f \in Fds : owner[f] = "free"}

OthersOpen == /\ Cardinality(Free) > MaxInbound + 1
              /\ \E f \in Free : owner' = [owner EXCEPT ![f] = "other"]
              /\ UNCHANGED <<main, bluez, glib, calls, wrong>>

-----------------------------------------------------------------------------
(* The GLib thread: one NewConnection at a time, step by step.             *)

GlibRuns == ~(pc = "closed" /\ managed)

NewConnection == /\ GlibRuns /\ gl = Idle /\ calls # <<>>
                 /\ \E f \in Free :
                      /\ gl' = [p |-> Head(calls), step |-> 1, fd |-> f]
                      /\ owner' = [owner EXCEPT ![f] = Head(calls)]
                 /\ calls' = Tail(calls)
                 /\ UNCHANGED <<main, bluez, prof, event, wrong>>

\* After fd.take(): the descriptor is stored, then the event is set.
\* (Mutant: the event is set first.)
HandlerOrderEventFirst == <<"event", "fd">>
HandlerOrder == <<"fd", "event">>

NewConnectionStep ==
  /\ gl # Idle
  /\ IF HandlerOrder[gl.step] = "fd"
     THEN prof' = [prof EXCEPT ![gl.p] = gl.fd] /\ UNCHANGED event
     ELSE event' = [event EXCEPT ![gl.p] = TRUE] /\ UNCHANGED prof
  /\ gl' = IF gl.step = 2 THEN Idle ELSE [gl EXCEPT !.step = 2]
  /\ UNCHANGED <<main, bluez, calls, owner, wrong>>

-----------------------------------------------------------------------------
(* The main thread.                                                        *)

\* setup_dbus: the server profile is only tried if the client's succeeded.
Setup == /\ pc = "setup"
         /\ reg' \in IF Failures THEN {{}, {"client"}, Profiles} ELSE {Profiles}
         /\ pc' = "started"
         /\ UNCHANGED <<polls, managed, selfFd, conn, dial, inbound, glib, calls, owner, wrong>>

\* Only when setup_dbus returns does close know what to undo.
Manage == /\ pc = "started"
          /\ managed' = TRUE /\ pc' = "dial"
          /\ UNCHANGED <<polls, selfFd, conn, bluez, glib, calls, owner, wrong>>

Dial == /\ pc = "dial"
        /\ pc' = "dialing" /\ dial' = "calling"
        /\ UNCHANGED <<polls, managed, selfFd, conn, reg, inbound, glib, calls, owner, wrong>>

\* ConnectProfile returns once the client's NewConnection has, or fails.
Handled(p) == p \notin {calls[i] : i \in DOMAIN calls} /\ gl.p # p
DialReturns == /\ pc = "dialing"
               /\ \/ /\ dial = "up" /\ Handled("client")
                     /\ UNCHANGED dial
                  \/ /\ Failures \/ "client" \notin reg
                     /\ dial = "calling"
                     /\ dial' \in {"over"} \cup IF LateClient THEN {"late"} ELSE {}
               /\ pc' = "poll"
               /\ UNCHANGED <<polls, managed, selfFd, conn, reg, inbound, glib, calls, owner, wrong>>

\* (Mutant: a poll that finds nothing does not count.)
PollForever == /\ pc = "poll"
               /\ pc' = IF event["server"] THEN "drop" ELSE "poll"
               /\ conn' = event["server"]
               /\ UNCHANGED <<polls, managed, selfFd, bluez, glib, calls, owner, wrong>>
Poll == /\ pc = "poll"
        /\ IF event["server"] \/ polls + 1 = Polls
           THEN pc' = "drop" /\ conn' = event["server"] /\ UNCHANGED polls
           ELSE polls' = polls + 1 /\ UNCHANGED <<pc, conn>>
        /\ UNCHANGED <<managed, selfFd, bluez, glib, calls, owner, wrong>>

\* os.close by the owner of a profile's connections.
CloseFd(f, p) == IF f = None THEN UNCHANGED <<owner, wrong>>
                 ELSE /\ owner' = [owner EXCEPT ![f] = "free"]
                      /\ wrong' = (wrong \/ owner[f] # p)

\* (Mutant: the outbound descriptor is kept.)
DropNothing == /\ pc = "drop"
               /\ pc' = IF conn THEN "pick" ELSE "none"
               /\ UNCHANGED <<polls, managed, selfFd, conn, bluez, glib, calls, owner, wrong>>
\* (Mutant: the wrong profile's descriptor is dropped.)
DropServer == /\ pc = "drop"
              /\ CloseFd(prof["server"], "server")
              /\ pc' = IF conn THEN "pick" ELSE "none"
              /\ UNCHANGED <<polls, managed, selfFd, conn, bluez, glib, calls>>
Drop == /\ pc = "drop"
        /\ CloseFd(prof["client"], "client")
        /\ pc' = IF conn THEN "pick" ELSE "none"
        /\ UNCHANGED <<polls, managed, selfFd, conn, bluez, glib, calls>>

Pick == /\ pc = "pick"
        /\ selfFd' = prof["server"] /\ pc' = "opened"
        /\ UNCHANGED <<polls, managed, conn, bluez, glib, calls, owner, wrong>>

\* Ctrl-C, anywhere in open; close still runs. (One inside close leaves the
\* process to end on the spot, and is not modelled.)
Interrupt == /\ Interrupts /\ pc \in {"setup", "started", "dial", "dialing", "poll", "drop", "pick"}
             /\ pc' = "raised"
             /\ UNCHANGED <<polls, managed, selfFd, conn, bluez, glib, calls, owner, wrong>>

\* close, which run_wifi_session calls once, however open ended.
\* (Mutant: the outbound descriptor is closed here too.)
Ended == pc \in {"opened", "none", "raised"}
AfterClose == IF managed THEN "unreg1" ELSE "closed"
CloseClientToo ==
  /\ Ended
  /\ CloseFd(IF pc = "opened" THEN prof["client"] ELSE None, "client")
  /\ pc' = AfterClose
  /\ UNCHANGED <<polls, managed, selfFd, conn, bluez, glib, calls>>
Close == /\ Ended
         /\ CloseFd(selfFd, "server")
         /\ pc' = AfterClose
         /\ UNCHANGED <<polls, managed, selfFd, conn, bluez, glib, calls>>

\* cleanup_dbus: each profile's failure to unregister is suppressed; all the
\* while the GLib thread takes connections.
Kept == IF Failures THEN {reg} ELSE {}
Unregister ==
  /\ \/ pc = "unreg1" /\ pc' = "unreg2" /\ reg' \in {reg \ {"client"}} \cup Kept
     \/ pc = "unreg2" /\ pc' = "quit" /\ reg' \in {reg \ {"server"}} \cup Kept
  /\ UNCHANGED <<polls, managed, selfFd, conn, dial, inbound, glib, calls, owner, wrong>>
Quit == /\ pc = "quit" /\ pc' = "closed"
        /\ UNCHANGED <<polls, managed, selfFd, conn, bluez, glib, calls, owner, wrong>>

Done == pc = "closed" /\ UNCHANGED vars

Main == Setup \/ Manage \/ Dial \/ DialReturns \/ Poll \/ Drop \/ Pick \/ Close
        \/ Unregister \/ Quit
Glib == NewConnection \/ NewConnectionStep
Next == Main \/ Glib \/ ClientConnects \/ ServerConnects \/ OthersOpen
        \/ Interrupt \/ Done
Spec == Init /\ [][Next]_vars

\* Both threads run; ConnectProfile is answered, by a connection or D-Bus's
\* own timeout.
FairSpec == Spec /\ WF_vars(Main) /\ WF_vars(Glib) /\ WF_vars(ClientConnects)
-----------------------------------------------------------------------------
TypeOK ==
  /\ pc \in {"setup", "started", "dial", "dialing", "poll", "drop", "pick",
            "opened", "none", "raised", "unreg1", "unreg2", "quit", "closed"}
  /\ polls \in 0 .. Polls - 1 /\ managed \in BOOLEAN /\ conn \in BOOLEAN
  /\ selfFd \in Fds \cup {None}
  /\ reg \subseteq Profiles /\ prof \in [Profiles -> Fds \cup {None}]
  /\ event \in [Profiles -> BOOLEAN]
  /\ calls \in Seq(Profiles)
  /\ gl = Idle \/ gl \in [p : Profiles, step : 1 .. 2, fd : Fds]
  /\ dial \in {"no", "calling", "up", "late", "over"} /\ inbound \in Nat
  /\ owner \in [Fds -> Profiles \cup {"free", "other"}] /\ wrong \in BOOLEAN

\* Why: until it is closed, what the GLib thread stored for the server
\* profile is the open descriptor of a connect-back, stored before its event
\* is set; and what it stored for the client profile is open until the drop.
Held(p) == /\ gl.p = p => gl.fd # None /\ owner[gl.fd] = p
           /\ gl.p = p /\ gl.step = 2 => prof[p] = gl.fd
           /\ prof[p] # None => owner[prof[p]] = p
BeforeDrop == pc \in {"setup", "started", "dial", "dialing", "poll", "drop"}
BeforeClose == pc \notin {"unreg1", "unreg2", "quit", "closed"}
Holding ==
  /\ BeforeClose => /\ Held("server")
                    /\ event["server"] => prof["server"] # None
                    /\ selfFd # None => pc = "opened"
  /\ pc = "opened" => selfFd # None /\ owner[selfFd] = "server"
  /\ conn => event["server"]
  /\ pc = "pick" => conn
  /\ BeforeDrop => Held("client")
  /\ ~wrong

\* What open returns is the open descriptor of a connection the camera made
\* to us: never None once the event was seen, never the outbound one, never
\* one already closed, whenever the GLib thread ran.
ReturnsInbound == pc = "opened" => selfFd # None /\ owner[selfFd] = "server"

\* No close hits a descriptor that, its number used again, belongs to
\* another connection or another part of the program.
ClosesOwn == ~wrong

\* The account of the descriptors. Whichever way open returned, the outbound
\* one is closed if its connection came up while ConnectProfile ran; and after
\* close, of the connections the camera made to us, exactly the one that open
\* returned is closed: a second one, one that came after the last poll, or
\* while cleanup_dbus ran, stays open until the process ends, or its call is
\* never begun.
Owned(p) == {f \in Fds : owner[f] = p}
Returned == IF selfFd # None THEN 1 ELSE 0
Released ==
  /\ pc \in {"opened", "none"} /\ dial = "up" => Owned("client") = {}
  /\ pc = "closed" =>
       Cardinality(Owned("server")) + CountOf(calls, "server") + Returned = inbound

\* bluetooth.py:134, "We drive data over the camera's inbound connection;
\* drop our outbound fd": once open has returned, the camera's connection is
\* the only one that is held.
OutboundDropped == pc = "opened" => Owned("client") = {}

\* open returns, whatever BlueZ and the camera do or leave undone.
OpenReturns == <>(pc \in {"opened", "none", "raised"})
=============================================================================
