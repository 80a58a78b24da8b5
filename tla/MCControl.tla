----------------------------- MODULE MCControl ------------------------------
(***************************************************************************)
(* Instances, side by side, of what guards the control server: who is let    *)
(* in, and what is pushed to whom.  As in MCHost, `sys' names the component  *)
(* a behaviour is of, its variables are the first of x1, x2, ... and the     *)
(* others are None for good.  The bounds stay constants, so that what is     *)
(* checked for the values of Mesh.cfg is proved for all of them.             *)
(***************************************************************************)
EXTENDS Naturals

CONSTANTS None,
          Handlers, MaxChanges, MaxDrops,                   \* of ConfigPush
          Accounts, MaxHashes,                              \* of ControlAccess
          Requests,                                         \* of ControlAccess and EnrolPop
          Challenges, MAX_PENDING, CHALLENGE_TTL, MaxTime,  \* of EnrolPop
          Devices, NetOf, Sessions, Master, MaxTokens       \* of DeviceApi

(* Times, tokens and hashes are numbers; sessions, keys and markers are not. *)
ASSUME ControlAssumption ==
    /\ None \notin Nat /\ Master \notin Nat /\ Sessions \cap Nat = {}
    /\ MAX_PENDING \in Nat /\ CHALLENGE_TTL \in Nat /\ MaxTokens \in Nat

VARIABLES sys, x1, x2, x3, x4, x5, x6, x7, x8, x9, x10, x11, x12, x13, x14, x15

(* The variables after the n-th, unused by a component that has n of them.   *)
After13 == <<x14, x15>>
None13 == x14 = None /\ x15 = None
After12 == <<x13, After13>>
None12 == x13 = None /\ None13
After11 == <<x12, After12>>
None11 == x12 = None /\ None12
After10 == <<x11, After11>>
None10 == x11 = None /\ None11
After9 == <<x10, After10>>
None9 == x10 = None /\ None10
After8 == <<x9, After9>>
None8 == x9 = None /\ None9
After7 == <<x8, After8>>
None7 == x8 = None /\ None8
After6 == <<x7, After7>>
None6 == x7 = None /\ None7
After5 == <<x6, After6>>
None5 == x6 = None /\ None6
After4 == <<x5, After5>>
None4 == x5 = None /\ None5
After3 == <<x4, After4>>
None3 == x4 = None /\ None4

mcVars == <<sys, x1, x2, x3, x4, x5, x6, x7, x8, x9, x10, x11, x12, x13, x14, x15>>

(* All devices in one network. *)
OneNet == [d \in Devices |-> "n"]

Push == INSTANCE ConfigPush WITH
    content <- x1, epoch <- x2, token <- x3, active <- x4, handler <- x5, chan <- x6,
    watcher <- x7, pushed <- x8, log <- x9, fence <- x10, changes <- x11, drops <- x12
Access == INSTANCE ControlAccess WITH
    hash <- x1, hashes <- x2, sessions <- x3, req <- x4, retired <- x5
Pop == INSTANCE EnrolPop WITH
    clock <- x1, pending <- x2, request <- x3, spent <- x4
Api == INSTANCE DeviceApi WITH
    dev <- x1, nets <- x2, tokens <- x3, owner <- x4, retired <- x5, req <- x6

ControlInit ==
    \/ sys = "push" /\ Push!PushInit /\ None12
    \/ sys = "access" /\ Access!AccessInit /\ None5
    \/ sys = "pop" /\ Pop!PopInit /\ None4
    \/ sys = "api" /\ Api!ApiInit /\ None6

ControlNext ==
    \/ sys = "push" /\ Push!PushNext /\ UNCHANGED After12
    \/ sys = "access" /\ Access!AccessNext /\ UNCHANGED After5
    \/ sys = "pop" /\ Pop!PopNext /\ UNCHANGED After4
    \/ sys = "api" /\ Api!ApiNext /\ UNCHANGED After6

ControlSpec == ControlInit /\ [][ControlNext /\ UNCHANGED sys]_mcVars

-----------------------------------------------------------------------------
(* Every component keeps to the types of its state. *)
ControlTypeOK ==
    /\ sys = "push" => Push!PushTypeOK
    /\ sys = "access" => Access!AccessTypeOK
    /\ sys = "pop" => Pop!PopTypeOK
    /\ sys = "api" => Api!ApiTypeOK

(* A pushed configuration holds every change its epoch announces, nothing    *)
(* committed after the bearer was rotated, and while no announcement is lost *)
(* a watch that sleeps has sent all that was announced (sql_store.rs,        *)
(* lib.rs).                                                                  *)
PushFaithful ==
    sys = "push" => /\ Push!EpochCovers /\ Push!CredentialFenced
                    /\ Push!WokenOrCurrent

(* No request is let through with a session older than a password change or  *)
(* a deletion that came before it (control-server auth.rs session_user); a   *)
(* challenge is good for one proof and the table is bounded (pop.rs); a      *)
(* device's token acts for that device alone, and what it writes belongs to  *)
(* a network that exists (lib.rs require_device).                            *)
CredentialsHold ==
    /\ sys = "access" => Access!StaleSessionDenied
    /\ sys = "pop" => Pop!ChallengeSpentOnce
    /\ sys = "api" => Api!TokenConfined /\ Api!RowsHaveNetwork
=============================================================================
