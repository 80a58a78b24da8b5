----------------------------- MODULE MobileEngine -----------------------------
(***************************************************************************)
(* The node inside a mobile application (fp-node-mobile-sys): start and     *)
(* stop calls of the platform, the engine's own thread and runtime, the     *)
(* packet descriptor that changes hands four times on its way into fp-tun,  *)
(* and the events that go up to the platform.                               *)
(*                                                                         *)
(* One engine per process: the slot is locked through a stop's join.  On    *)
(* Android the engine adopts the descriptor; on iOS it duplicates it.       *)
(***************************************************************************)
EXTENDS Naturals, FiniteSets

CONSTANTS Gens,          \* generations, 1..n: one per start call
          Callers,       \* platform threads that call start and stop
          Systems,       \* subset of {"android", "ios"}
          None

VARIABLES os,
          slot,          \* STOP / ENGINE: None or the generation it holds
          lock,          \* its mutex: None or a caller
          call,          \* caller -> [pc, gen]; at "join", gen is who is joined
          started,       \* generations that start was called for
          thread,        \* generation -> what its thread is at
          holds,         \* generation -> which owners would close the descriptor
          closes,        \* generation -> how often it was closed
          asked,         \* generations whose stop channel has fired
          stopped,       \* generations whose stop has returned
          told,          \* generations whose exit was reported
          event          \* [gen, kind] the last step sent to the platform

callVars == <<slot, lock, call, started, asked, stopped>>
engineVars == <<thread, holds, closes, told>>
mobileVars == <<os, callVars, engineVars, event>>

Idle == [pc |-> "idle", gen |-> None]
NoEvent == event' = None
NotEngine == UNCHANGED <<os, callVars>>

MobileInit ==
    /\ os \in Systems /\ slot = None /\ lock = None /\ call = [c \in Callers |-> Idle]
    /\ started = {} /\ asked = {} /\ stopped = {} /\ told = {} /\ event = None
    /\ thread = [g \in Gens |-> "none"]
    /\ holds = [g \in Gens |-> {}] /\ closes = [g \in Gens |-> 0]

-----------------------------------------------------------------------------
Call(c, pc, g) ==
    /\ call[c].pc = "idle" /\ call' = [call EXCEPT ![c] = [pc |-> pc, gen |-> g]]
    /\ NoEvent /\ UNCHANGED <<os, slot, lock, asked, stopped, engineVars>>

(* The platform numbers its starts; a stop may come late, for an older one. *)
CallStart(c) == LET g == Cardinality(started) + 1 IN
    g \in Gens /\ started' = started \cup {g} /\ Call(c, "start", g)
CallStop(c, g) == g \in started /\ Call(c, "stop", g) /\ UNCHANGED started

Lock(c) ==
    /\ call[c].pc \in {"start", "stop"} /\ lock = None /\ lock' = c /\ NoEvent
    /\ UNCHANGED <<os, slot, call, started, asked, stopped, engineVars>>

Return(c) == lock = c /\ lock' = None /\ call' = [call EXCEPT ![c] = Idle] /\ UNCHANGED os

(* start, with the slot taken: the descriptor stays the caller's.           *)
Refuse(c) ==
    /\ call[c].pc = "start" /\ slot # None /\ Return(c) /\ NoEvent
    /\ UNCHANGED <<slot, started, asked, stopped, engineVars>>

(* A thread could not be spawned, or (iOS) the descriptor not duplicated; a *)
(* duplicate goes with the closure that never ran.                          *)
SpawnFails(c) ==
    /\ call[c].pc = "start" /\ slot = None /\ Return(c) /\ NoEvent
    /\ UNCHANGED <<slot, started, asked, stopped, engineVars>>

runNode(c) ==
    LET g == call[c].gen IN
    /\ call[c].pc = "start" /\ slot = None /\ Return(c) /\ NoEvent /\ slot' = g
    /\ thread' = [thread EXCEPT ![g] = "spawned"]
    /\ holds' = [holds EXCEPT ![g] = IF os = "ios" THEN {"owned"} ELSE {}]
    /\ UNCHANGED <<started, asked, stopped, closes, told>>

(* stop: nothing runs, or (iOS) another generation does.                    *)
StopNothing(c) ==
    /\ call[c].pc = "stop" /\ (slot # None => os = "ios" /\ slot # call[c].gen)
    /\ Return(c) /\ NoEvent /\ UNCHANGED <<slot, started, asked, stopped, engineVars>>

\* Mutant of stopNode: does not wait for the engine's thread.
BugstopNode(c) ==
    /\ call[c].pc = "stop" /\ slot # None /\ (os = "ios" => slot = call[c].gen)
    /\ slot' = None /\ asked' = asked \cup {slot} /\ stopped' = stopped \cup {slot}
    /\ Return(c) /\ NoEvent /\ UNCHANGED <<started, engineVars>>

stopNode(c) ==
    /\ call[c].pc = "stop" /\ lock = c /\ slot # None /\ (os = "ios" => slot = call[c].gen)
    /\ slot' = None /\ asked' = asked \cup {slot}
    /\ call' = [call EXCEPT ![c] = [pc |-> "join", gen |-> slot]]
    /\ NoEvent /\ UNCHANGED <<os, lock, started, stopped, engineVars>>

Join(c) ==
    /\ call[c].pc = "join" /\ thread[call[c].gen] = "done"
    /\ stopped' = stopped \cup {call[c].gen}
    /\ Return(c) /\ NoEvent /\ UNCHANGED <<slot, started, asked, engineVars>>

-----------------------------------------------------------------------------
At(g, pc) == thread[g] = pc
Goes(g, pc) == thread' = [thread EXCEPT ![g] = pc]
Keeps == UNCHANGED <<holds, closes>>
Gives(g, owner) == holds' = [holds EXCEPT ![g] = {owner}] /\ UNCHANGED closes

(* Every owner that is dropped closes the descriptor.                       *)
Drops(g) ==
    /\ closes' = [closes EXCEPT ![g] = @ + Cardinality(holds[g])]
    /\ holds' = [holds EXCEPT ![g] = {}]

Exited(g) == event' = [gen |-> g, kind |-> "exit"] /\ told' = told \cup {g}
Silent == NoEvent /\ UNCHANGED told

(* Android: the thread takes the raw descriptor over first of all.          *)
Adopt(g) == At(g, "spawned") /\ os = "android" /\ holds[g] = {} /\ Gives(g, "owned")
    /\ Silent /\ NotEngine /\ UNCHANGED thread

RuntimeFails(g) == At(g, "spawned") /\ holds[g] # {} /\ Goes(g, "done") /\ Drops(g) /\ Exited(g) /\ NotEngine

Select(g) == At(g, "spawned") /\ holds[g] # {} /\ Goes(g, "select") /\ Keeps /\ Silent /\ NotEngine

(* The engine ends by itself.  Android reports it at once, iOS after the    *)
(* runtime is gone.                                                         *)
Ends(g) ==
    /\ Goes(g, "ended") /\ Drops(g) /\ NotEngine
    /\ IF os = "android" THEN Exited(g) ELSE Silent

(* run_embedded's first poll: a guard, the configuration, then run_with's   *)
(* own guard, without a point where the future could be dropped between.    *)
\* Mutant of run_embedded: the outer guard stays armed.
Bugrun_embedded(g) ==
    /\ At(g, "select")
    /\ \/ Ends(g)
       \/ Goes(g, "boot") /\ Silent /\ NotEngine /\ UNCHANGED closes
          /\ holds' = [holds EXCEPT ![g] = {"embedded", "run_with"}]

run_embedded(g) ==
    /\ At(g, "select")
    /\ \/ Ends(g)
       \/ Goes(g, "boot") /\ Gives(g, "run_with") /\ Silent /\ NotEngine

(* Anything run_with does before it has a device can fail.                  *)
BootFails(g) == At(g, "boot") /\ Ends(g)

(* The guard is disarmed, fp-tun owns the descriptor, also when it fails.   *)
CreateTun(g) ==
    /\ At(g, "boot")
    /\ \/ Ends(g)
       \/ Goes(g, "up") /\ Gives(g, "tun") /\ Silent /\ NotEngine

EngineEnds(g) == At(g, "up") /\ Ends(g)

(* Reporter.applied: routes, then readiness.  The reconciler is a task of   *)
(* its own; when the engine is cancelled it goes on until the runtime ends. *)
applied(g) ==
    /\ thread[g] \in {"up", "cancelled"} /\ "tun" \in holds[g]
    /\ event' = [gen |-> g, kind |-> "routes"] /\ NotEngine /\ UNCHANGED engineVars

(* The select takes the stop: the future and its guards are dropped.  The   *)
(* device is in the hands of spawned tasks, until the runtime shuts down.   *)
Cancel(g) ==
    /\ thread[g] \in {"select", "boot", "up"} /\ g \in asked /\ Goes(g, "cancelled")
    /\ IF At(g, "up") THEN Keeps ELSE Drops(g)
    /\ Silent /\ NotEngine

(* runtime::shutdown, then the thread is over.                              *)
shutdown(g) ==
    /\ thread[g] \in {"ended", "cancelled"} /\ Goes(g, "done") /\ Drops(g) /\ NotEngine
    /\ IF At(g, "ended") /\ os = "ios" THEN Exited(g) ELSE Silent

MobileNext ==
    \/ \E c \in Callers : \/ CallStart(c) \/ Lock(c) \/ Refuse(c) \/ SpawnFails(c) \/ runNode(c)
                          \/ StopNothing(c) \/ stopNode(c) \/ Join(c)
                          \/ \E g \in Gens : CallStop(c, g)
    \/ \E g \in Gens : \/ Adopt(g) \/ RuntimeFails(g) \/ Select(g) \/ run_embedded(g) \/ BootFails(g)
                       \/ CreateTun(g) \/ EngineEnds(g) \/ applied(g) \/ Cancel(g) \/ shutdown(g)

MobileSpec == MobileInit /\ [][MobileNext]_mobileVars

-----------------------------------------------------------------------------
MobileTypeOK ==
    /\ slot \in {None} \cup Gens /\ lock \in {None} \cup Callers
    /\ thread \in [Gens -> {"none", "spawned", "select", "boot", "up", "ended", "cancelled", "done"}]
    /\ holds \in [Gens -> SUBSET {"owned", "embedded", "run_with", "tun"}]
    /\ closes \in [Gens -> 0..2] /\ asked \subseteq started /\ stopped \subseteq asked
    /\ told \subseteq started

(* The descriptor is closed exactly once, however the engine ends: refused  *)
(* configuration, failed start, cancelled before its first poll or later    *)
(* (InjectedFdGuard: "we must NOT double-close", "otherwise it leaks").     *)
FdClosedOnce ==
    \A g \in Gens : /\ closes[g] + Cardinality(holds[g]) <= 1
                    /\ At(g, "done") => closes[g] = 1

(* Two engines never run side by side, whoever calls start and stop (the    *)
(* slot is locked through the join).                                        *)
OneEngine == Cardinality({g \in Gens : thread[g] \notin {"none", "done"}}) <= 1

(* After stop has returned the platform hears nothing more of that          *)
(* generation, so its callback may go.                                      *)
QuietAfterStop == event # None => event.gen \notin stopped

(* An engine that is over without anyone having asked was reported, so the  *)
(* platform does not show a dead engine as connected.                       *)
ExitKnown == \A g \in Gens : At(g, "done") /\ g \notin asked => g \in told
=============================================================================
