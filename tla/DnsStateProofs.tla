--------------------------- MODULE DnsStateProofs ----------------------------
(***************************************************************************)
(* What DnsJournal keeps of the links and of the resolver file: the        *)
(* inductive invariants and that every step preserves them.                *)
(***************************************************************************)
EXTENDS DnsJournalSteps

-----------------------------------------------------------------------------
(* The links. *)

(* A link with settings of ours belongs to a running process of this boot, and the entry of
   a journal for it has what was there before. *)
LinksOf(j) ==
    \A i \in Ifaces :
        IF j.resolved[i] = None THEN res[i] = Prior
        ELSE /\ j.resolved[i].saved = Prior /\ j.resolved[i].proc \in 1 .. procs
             /\ res[i] # Prior => running[i] = j.resolved[i].proc
             /\ running[i] = j.resolved[i].proc => j.resolved[i].boot = boot

(* The entries still to be pruned are those of dead processes, and when the operation gets
   to its own link, the entry for it is its own. *)
OwnLink ==
    holder # None =>
        /\ \A i \in holder.stale : running[i] # holder.mem.resolved[i].proc
        /\ holder.at \in {"links", "op", "set_resolved"} /\ holder.mem.resolved[holder.iface] # None =>
              \/ holder.at = "links" /\ holder.iface \in holder.stale
              \/ running[holder.iface] = holder.mem.resolved[holder.iface].proc
        /\ holder.at = "set_resolved" => holder.mem.resolved[holder.iface] # None

LinkInv == LinksOf(journal) /\ (holder # None => LinksOf(holder.mem)) /\ OwnLink

(* At the start no link has settings of ours and no operation is under way. *)
LEMMA LinkStart ==
    ASSUME Init
    PROVE  Holding /\ LinkInv
BY DEF Init, Holding, LinkInv, LinksOf, OwnLink, Prior

(* A step that leaves resolved alone and the entries of the operation as they are. *)
LEMMA LinksStay ==
    ASSUME LinkInv, UNCHANGED <<res, running, procs, boot>>,
           journal' = journal \/ (holder # None /\ journal' = holder.mem),
           \/ holder' = None
           \/ holder' # None /\ holder # None /\ holder'.mem.resolved = holder.mem.resolved
           \/ holder' # None /\ holder'.mem = journal
    PROVE  LinksOf(journal)' /\ (holder' # None => LinksOf(holder.mem)')
<1>1. LinksOf(journal)'
  BY DEF LinkInv, LinksOf
<1>2. ASSUME holder' # None, holder # None, holder'.mem.resolved = holder.mem.resolved
      PROVE  LinksOf(holder.mem)'
  BY <1>2 DEF LinkInv, LinksOf
<1>3. ASSUME holder' # None, holder'.mem = journal
      PROVE  LinksOf(holder.mem)'
  BY <1>3 DEF LinkInv, LinksOf
<1> QED BY <1>1, <1>2, <1>3

(* Pruning the entry of a dead process changes nothing on its link, which went with the
   process (prune). *)
LEMMA PruneLinkStep ==
    ASSUME Typed, LinkInv, NEW i \in Ifaces, PruneLink(i)
    PROVE  LinkInv'
<1> USE DEF Typed
<1> DEFINE r == holder.mem.resolved[i]
<1>1. /\ holder # None /\ holder.at = "links" /\ i \in holder.stale /\ holder.stale \subseteq Ifaces
      /\ holder.mem.resolved \in [Ifaces -> Resolved \cup {None}] /\ holder.iface \in Ifaces
      /\ holder.mem \in Journal /\ r # None
  BY PruneLinkIs, HolderTyped DEF Operation, Journal, CallOK
<1>2. r.saved = Prior /\ running[i] # r.proc /\ res[i] = Prior /\ r.proc \in 1 .. procs
  BY <1>1 DEF LinkInv, LinksOf, OwnLink
<1>3. res' = res
  <2>1. res \in [Ifaces -> Setting]
    BY DEF TypeOK
  <2>2. /\ [res EXCEPT ![i] = Prior] = res /\ [res EXCEPT ![i].dns = Prior.dns] = res
        /\ [res EXCEPT ![i].domain = Prior.domain] = res
    BY <1>2, <2>1 DEF Prior
  <2>3. res' \in {res, [res EXCEPT ![i] = r.saved]} \cup PartlyRestored(i, r.saved)
    BY DEF PruneLink
  <2> QED BY <1>2, <2>2, <2>3 DEF PartlyRestored
<1>4. UNCHANGED <<journal, running, procs, boot>>
  BY DecideIs DEF host
<1>5. LinksOf(journal)'
  BY <1>3, <1>4 DEF LinkInv, LinksOf
<1>6. CASE holder' = None
  BY <1>5, <1>6 DEF LinkInv, OwnLink
<1>7. CASE holder' # None
  <2>1. /\ holder'.iface = holder.iface /\ holder'.at = "links" /\ holder'.stale = holder.stale \ {i}
        /\ holder'.mem.resolved = [holder.mem.resolved EXCEPT ![i] = None]
    BY <1>7, PruneLinkIs
  <2>2. \A k \in Ifaces : holder'.mem.resolved[k] = IF k = i THEN None ELSE holder.mem.resolved[k]
    BY <1>1, <2>1
  <2>3. LinksOf(holder.mem)'
    BY <1>1, <1>2, <1>3, <1>4, <2>2 DEF LinkInv, LinksOf
  <2>4. OwnLink'
    BY <1>1, <1>4, <2>1, <2>2 DEF LinkInv, OwnLink
  <2> QED BY <1>5, <2>3, <2>4 DEF LinkInv
<1> QED BY <1>6, <1>7

(* What is saved before the first set is what was there before (set_mode_with). *)
LEMMA QueryLinkStep ==
    ASSUME Typed, Holding, LinkInv, QueryLink
    PROVE  LinkInv'
<1> USE DEF Typed
<1> DEFINE i == holder.iface
<1>1. /\ holder # None /\ holder.at = "op" /\ i \in Ifaces /\ holder.stale = {}
      /\ holder.mem.resolved \in [Ifaces -> Resolved \cup {None}]
  BY QueryLinkIs, HolderTyped DEF Journal, CallOK
<1>2. UNCHANGED <<res, journal, running, procs, boot>>
  BY DecideIs DEF host, QueryLink
<1>3. LinksOf(journal)'
  BY <1>2 DEF LinkInv, LinksOf
<1>4. CASE holder' = None
  BY <1>3, <1>4 DEF LinkInv, OwnLink
<1>5. CASE holder' # None /\ holder'.mem = holder.mem
  <2>1. SameCall /\ (holder'.at = "set_file"
                     \/ (holder'.at = "set_resolved" /\ holder.mem.resolved[i] # None))
    <3>1. holder.mem.resolved[i] = None =>
             [holder.mem.resolved EXCEPT ![i] = [saved |-> res[i], proc |-> running[i], boot |-> boot]]
               # holder.mem.resolved
      <4>1. [saved |-> res[i], proc |-> running[i], boot |-> boot] # None
        <5>1. res[i] \in Setting /\ running[i] \in Nat /\ boot \in Nat
          BY <1>1, ConstantsAssumption DEF TypeOK
        <5>2. [saved |-> res[i], proc |-> running[i], boot |-> boot] \in Resolved
          BY <5>1 DEF Resolved
        <5> QED BY <5>2, NoneAssumption
      <4> QED BY <1>1, <4>1
    <3> QED BY <1>5, <3>1, QueryLinkIs
  <2>2. LinksOf(holder.mem)'
    BY <1>2, <1>5, <1>1 DEF LinkInv, LinksOf
  <2>3. OwnLink'
    BY <1>1, <1>2, <1>5, <2>1 DEF LinkInv, OwnLink, SameCall
  <2> QED BY <1>3, <2>2, <2>3 DEF LinkInv
<1>6. CASE holder' # None /\ holder'.mem # holder.mem
  <2> DEFINE s == [saved |-> res[i], proc |-> running[i], boot |-> boot]
  <2>1. /\ SameCall /\ holder'.at = "set_resolved" /\ holder.mem.resolved[i] = None
        /\ holder'.mem.resolved = [holder.mem.resolved EXCEPT ![i] = s]
    BY <1>6, QueryLinkIs
  <2>2. running[i] \in 1 .. procs /\ res[i] = Prior /\ boot \in Nat
    BY <1>1, <2>1, ConstantsAssumption DEF Holding, TypeOK, LinkInv, LinksOf
  <2>3. s # None /\ s.saved = Prior /\ s.proc = running[i] /\ s.boot = boot
    <3>1. s \in Resolved
      BY <2>2, ConstantsAssumption DEF Resolved, Prior, Setting, TypeOK
    <3> QED BY <2>2, <3>1, NoneAssumption
  <2>4. \A k \in Ifaces : holder'.mem.resolved[k] = IF k = i THEN s ELSE holder.mem.resolved[k]
    BY <1>1, <2>1
  <2> HIDE DEF s
  <2>5. LinksOf(holder.mem)'
    BY <1>1, <1>2, <2>2, <2>3, <2>4 DEF LinkInv, LinksOf
  <2>6. OwnLink'
    BY <1>1, <1>2, <2>1, <2>3, <2>4 DEF LinkInv, OwnLink, SameCall
  <2> QED BY <1>3, <2>5, <2>6 DEF LinkInv
<1> QED BY <1>4, <1>5, <1>6

(* Our settings go to a link that the saved journal has an entry for (set_mode_with). *)
LEMMA SetLinkStep ==
    ASSUME Typed, Holding, LinkInv, SetLink
    PROVE  LinkInv'
<1> USE DEF Typed
<1> DEFINE i == holder.iface
<1>1. /\ holder # None /\ holder.at = "set_resolved" /\ i \in Ifaces /\ holder.stale = {}
      /\ holder.mem = journal
  BY SetLinkIs, HolderTyped DEF CallOK, Holding
<1>2. UNCHANGED <<journal, running, procs, boot>>
  BY DecideIs DEF host
<1>3. journal.resolved[i] # None /\ running[i] = journal.resolved[i].proc
  BY <1>1 DEF LinkInv, OwnLink
<1>4. \A k \in Ifaces : k # i => res'[k] = res[k]
  BY SetLinkIs DEF TypeOK
<1>5. LinksOf(journal)'
  BY <1>2, <1>3, <1>4 DEF LinkInv, LinksOf
<1>6. holder' # None => holder'.mem = journal /\ holder'.at = "set_file" /\ SameCall
  BY <1>1, SetLinkIs
<1>7. holder' # None => LinksOf(holder.mem)'
  BY <1>2, <1>5, <1>6 DEF LinksOf
<1>8. OwnLink'
  BY <1>1, <1>6 DEF OwnLink, SameCall
<1> QED BY <1>5, <1>7, <1>8 DEF LinkInv

(* The entry goes once the settings are back, and stays when they are not (clear_with). *)
LEMMA ClearLinkStep ==
    ASSUME Typed, Holding, LinkInv, ClearLink
    PROVE  LinkInv'
<1> USE DEF Typed
<1> DEFINE i == holder.iface
           r == holder.mem.resolved[i]
<1>1. /\ holder # None /\ holder.at = "op" /\ i \in Ifaces /\ holder.stale = {}
      /\ holder.mem = journal /\ holder' # None
      /\ holder.mem.resolved \in [Ifaces -> Resolved \cup {None}]
  BY ClearLinkIs, HolderTyped, NoneAssumption DEF CallOK, Holding, Journal
<1>2. UNCHANGED <<journal, running, procs, boot>>
  BY DecideIs DEF host
<1>3. r # None => running[i] = r.proc /\ r.saved = Prior
  BY <1>1 DEF LinkInv, OwnLink, LinksOf
<1>4. \A k \in Ifaces : k # i => res'[k] = res[k]
  BY ClearLinkIs DEF TypeOK, PartlyRestored
<1>5. r = None => res' = res
  BY ClearLinkIs
<1>6. LinksOf(journal)'
  BY <1>1, <1>2, <1>3, <1>4, <1>5 DEF LinkInv, LinksOf
<1>7. OwnLink'
  BY <1>1, ClearLinkIs DEF OwnLink, SameCall
<1>8. CASE holder'.mem = holder.mem
  <2>1. LinksOf(holder.mem)'
    BY <1>1, <1>2, <1>6, <1>8 DEF LinksOf
  <2> QED BY <1>6, <1>7, <2>1 DEF LinkInv
<1>9. CASE /\ holder'.mem.resolved = [holder.mem.resolved EXCEPT ![i] = None]
           /\ res' = [res EXCEPT ![i] = r.saved] /\ r # None
  <2>1. \A k \in Ifaces : holder'.mem.resolved[k] = IF k = i THEN None ELSE holder.mem.resolved[k]
    BY <1>1, <1>9
  <2>2. res'[i] = Prior
    BY <1>1, <1>3, <1>9 DEF TypeOK
  <2>3. LinksOf(holder.mem)'
    BY <1>1, <1>2, <1>4, <2>1, <2>2 DEF LinkInv, LinksOf
  <2> QED BY <1>6, <1>7, <2>3 DEF LinkInv
<1> QED BY <1>8, <1>9, ClearLinkIs

(* Every step keeps the links accounted for. *)
LEMMA LinkStep ==
    ASSUME Typed, Holding, LinkInv, [Next]_vars
    PROVE  LinkInv'
<1> USE DEF Typed
<1>1. ASSUME NEW i \in Ifaces, NEW op \in {"set", "verify", "clear"}, NEW dns \in Dns \cup {None},
             Open(i, op, dns)
      PROVE  LinkInv'
  <2>1. OwnLink'
    BY <1>1, OpenIs DEF OwnLink
  <2> QED BY <1>1, <2>1, OpenIs, LinksStay DEF LinkInv, still, host
<1>2. CASE PruneOwners
  <2>1. UNCHANGED <<res, journal, running, procs, boot>>
    BY <1>2, DecideIs DEF host, PruneOwners
  <2>2. OwnLink'
    BY <1>2, PruneOwnersIs DEF OwnLink, CallOK, SameCall
  <2> QED BY <1>2, <2>1, <2>2, PruneOwnersIs, LinksStay DEF LinkInv
<1>3. CASE PruneFile
  <2>1. UNCHANGED <<res, journal, running, procs, boot>>
    BY <1>3, DecideIs DEF host, PruneFile
  <2>2. OwnLink'
    BY <1>3, PruneFileIs DEF OwnLink, CallOK, SameCall
  <2> QED BY <1>3, <2>1, <2>2, PruneFileIs, LinksStay DEF LinkInv
<1>4. CASE PruneLinks
  <2>1. UNCHANGED <<res, journal, running, procs, boot>>
    BY <1>4, DecideIs DEF host, PruneLinks
  <2>2. OwnLink'
    BY <1>4, <2>1, PruneLinksIs, HolderTyped DEF OwnLink
  <2> QED BY <1>4, <2>1, <2>2, PruneLinksIs, LinksStay DEF LinkInv
<1>5. CASE Begin
  <2>1. UNCHANGED <<res, journal, running, procs, boot>>
    BY <1>5, DecideIs DEF host, Begin
  <2>2. OwnLink'
    BY <1>5, <2>1, BeginIs DEF LinkInv, OwnLink
  <2> QED BY <1>5, <2>1, <2>2, BeginIs, LinksStay DEF LinkInv
<1>6. CASE ReleaseFile
  <2>1. UNCHANGED <<res, journal, running, procs, boot>>
    BY <1>6, DecideIs DEF host, ReleaseFile
  <2>2. OwnLink'
    BY <1>6, ReleaseFileIs DEF OwnLink, CallOK, SameCall
  <2> QED BY <1>6, <2>1, <2>2, ReleaseFileIs, LinksStay DEF LinkInv
<1>7. CASE RepairFile \/ TakeFile
  <2>1. UNCHANGED <<res, journal, running, procs, boot>>
    BY <1>7, DecideIs DEF host, RepairFile, TakeFile
  <2>2. OwnLink'
    BY <1>7, TakeFileIs DEF OwnLink, CallOK, SameCall
  <2> QED BY <1>7, <2>1, <2>2, TakeFileIs, LinksStay DEF LinkInv
<1>8. CASE ClearFile
  <2>1. UNCHANGED <<res, journal, running, procs, boot>>
    BY <1>8, DecideIs DEF host, ClearFile
  <2>2. OwnLink'
    BY <1>8, ClearFileIs DEF OwnLink, CallOK, SameCall
  <2> QED BY <1>8, <2>1, <2>2, ClearFileIs, LinksStay DEF LinkInv
<1>9. CASE RefuseFile \/ KeepFile \/ Close
  <2>1. OwnLink'
    BY <1>9, CloseIs DEF OwnLink
  <2> QED BY <1>9, <2>1, CloseIs, LinksStay DEF LinkInv, still, host
<1>10. CASE Perform
  <2>1. /\ UNCHANGED <<res, running, procs, boot>> /\ SameOperation /\ holder # None
        /\ journal' = journal \/ journal' = holder.mem
    BY <1>10, PerformIs DEF Saved, Written, host
  <2>2. OwnLink'
    BY <2>1 DEF LinkInv, OwnLink, SameOperation, SameCall
  <2> QED BY <2>1, <2>2, LinksStay DEF LinkInv, SameOperation
<1>11. CASE Fail
  <2>1. /\ UNCHANGED <<res, running, procs, boot>> /\ holder # None
        /\ journal' = journal \/ journal' = holder.mem
        /\ holder' = None \/ SameOperation
    BY <1>11, FailIs DEF Saved, Written, host
  <2>2. OwnLink'
    BY <2>1 DEF LinkInv, OwnLink, SameOperation, SameCall
  <2> QED BY <2>1, <2>2, LinksStay DEF LinkInv, SameOperation
<1>12. ASSUME NEW i \in Ifaces, Start(i) PROVE LinkInv'
  <2>1. /\ running[i] = 0 /\ procs' = procs + 1 /\ procs \in Nat
        /\ \A k \in Ifaces : running'[k] = IF k = i THEN procs + 1 ELSE running[k]
        /\ UNCHANGED <<res, journal, holder, boot>>
    BY <1>12, ConstantsAssumption DEF Start, TypeOK
  <2>2. LinksOf(journal)'
    BY <2>1 DEF LinkInv, LinksOf
  <2>3. holder # None => LinksOf(holder.mem)'
    BY <2>1 DEF LinkInv, LinksOf
  <2>4. OwnLink'
    <3>1. holder # None => holder.iface \in Ifaces /\ holder.iface # i
      BY <2>1, HolderTyped DEF Holding
    <3>2. ASSUME holder # None, NEW k \in holder.stale PROVE running'[k] # holder.mem.resolved[k].proc
      <4>1. k \in Ifaces /\ holder.mem.resolved[k] # None
        BY <3>2, HolderTyped DEF Operation, CallOK
      <4>2. holder.mem.resolved[k].proc \in 1 .. procs /\ running[k] # holder.mem.resolved[k].proc
        BY <3>2, <4>1 DEF LinkInv, LinksOf, OwnLink
      <4> QED BY <2>1, <4>1, <4>2
    <3> QED BY <2>1, <3>1, <3>2 DEF LinkInv, OwnLink
  <2> QED BY <2>1, <2>2, <2>3, <2>4 DEF LinkInv
<1>13. ASSUME NEW i \in Ifaces, Stop(i) PROVE LinkInv'
  <2>1. /\ \A k \in Ifaces : running'[k] = IF k = i THEN 0 ELSE running[k]
        /\ \A k \in Ifaces : res'[k] = IF k = i THEN Prior ELSE res[k]
        /\ UNCHANGED <<journal, procs, boot>> /\ procs \in Nat
        /\ holder' = None \/ (holder' = holder /\ holder.iface # i)
    BY <1>13, ConstantsAssumption DEF Stop, TypeOK
  <2>2. LinksOf(journal)'
    BY <2>1 DEF LinkInv, LinksOf
  <2>3. holder' # None => LinksOf(holder.mem)'
    BY <2>1 DEF LinkInv, LinksOf
  <2>4. OwnLink'
    <3>1. ASSUME holder # None, NEW k \in holder.stale PROVE running'[k] # holder.mem.resolved[k].proc
      <4>1. k \in Ifaces /\ holder.mem.resolved[k] # None
        BY <3>1, HolderTyped DEF Operation, CallOK
      <4>2. holder.mem.resolved[k].proc \in 1 .. procs /\ running[k] # holder.mem.resolved[k].proc
        BY <3>1, <4>1 DEF LinkInv, LinksOf, OwnLink
      <4> QED BY <2>1, <4>1, <4>2
    <3>2. holder # None => holder.iface \in Ifaces
      BY HolderTyped
    <3> QED BY <2>1, <3>1, <3>2 DEF LinkInv, OwnLink
  <2> QED BY <2>2, <2>3, <2>4 DEF LinkInv
<1>14. CASE Reboot
  <2>1. /\ \A k \in Ifaces : running'[k] = 0 /\ res'[k] = Prior
        /\ UNCHANGED <<journal, procs>> /\ holder' = None /\ procs \in Nat
    BY <1>14, ConstantsAssumption DEF Reboot, TypeOK
  <2>2. LinksOf(journal)'
    BY <2>1 DEF LinkInv, LinksOf
  <2> QED BY <2>1, <2>2 DEF LinkInv, OwnLink
<1>15. CASE UNCHANGED <<res, journal, holder, running, procs, boot>>
  BY <1>15 DEF LinkInv, LinksOf, OwnLink
<1>16. ASSUME NEW c \in Foreign, ForeignWrite(c) PROVE LinkInv'
  BY <1>15, <1>16 DEF ForeignWrite
<1>17. ASSUME NEW t \in Targets, Retarget(t) PROVE LinkInv'
  BY <1>15, <1>17 DEF Retarget
<1>18. CASE UNCHANGED vars
  BY <1>15, <1>18 DEF vars
<1> QED BY NextIs, PruneLinkStep, QueryLinkStep, SetLinkStep, ClearLinkStep,
           <1>1, <1>2, <1>3, <1>4, <1>5, <1>6, <1>7, <1>8, <1>9, <1>10, <1>11, <1>12,
           <1>13, <1>14, <1>16, <1>17, <1>18

-----------------------------------------------------------------------------
(* The file. *)

(* A snapshot of /run is of this boot. *)
Fresh(f) == f.target \in Volatile => f.boot = boot

(* What is saved as the original is none of our bodies. *)
Sound(j) == j.file # None => j.file.bytes \notin Dns /\ j.file.target = link

(* No body of ours is in a file that the journal does not account for. *)
Recorded ==
    /\ Sound(journal)
    /\ journal.file = None \/ ~Fresh(journal.file) => file[link] \notin Dns

(* The effects to come: a restore puts the original back before the journal forgets it, and
   a set saves the original before it overwrites it. *)
ToCome ==
    holder # None =>
        /\ Sound(holder.mem)
        /\ holder.at # "prune" /\ holder.mem.file # None => Fresh(holder.mem.file)
        /\ holder.todo = <<"save">> /\ holder.mem.file = None => Slip \/ file[link] \notin Dns
        /\ holder.todo = <<"write", "save">> =>
              /\ holder.target = link /\ journal.file # None /\ Fresh(journal.file)
              /\ holder.mem.file = None => holder.body \notin Dns
        /\ holder.todo = <<"save", "write">> => holder.target = link /\ holder.mem.file # None
        /\ holder.todo = <<"write">> =>
              holder.target = link /\ journal.file # None /\ Fresh(journal.file)

(* The file while nobody pointed the link elsewhere and no body of ours was forgotten. *)
FileInv == ~moved /\ ~slipped => Recorded /\ ToCome

(* At the start the file is the original and the journal is empty. *)
LEMMA FileStart ==
    ASSUME Init
    PROVE  FileInv
BY ConstantsAssumption DEF Init, FileInv, Recorded, ToCome, Sound

(* A decision that leaves the file, the journal and the link alone. *)
LEMMA RecordedStays ==
    ASSUME Recorded, UNCHANGED <<file, journal, link, boot>>
    PROVE  Recorded'
BY DEF Recorded, Sound, Fresh

(* What restore_file leaves to come. *)
LEMMA RestoreToCome ==
    ASSUME Typed, Recorded, UNCHANGED <<file, journal, link, boot>>, FileRestored(holder.mem),
           holder # None, Sound(holder.mem), holder.mem.file # None => Fresh(holder.mem.file),
           holder.mem.file = journal.file, holder' # None
    PROVE  ToCome'
<1>1. CASE holder.mem.file = None
  BY <1>1, Tails DEF FileRestored, ToCome, Sound
<1>2. CASE holder.mem.file # None /\ ~Recognised(holder.mem)
  <2>1. holder'.mem.file = None /\ holder'.todo = <<"save">>
    BY <1>2 DEF FileRestored
  <2>2. Slip \/ file[link] \notin Dns
    BY <1>2 DEF Recognised, Slip, Sound
  <2>3. (Slip \/ file[link] \notin Dns)'
    BY <2>2 DEF Slip
  <2> QED BY <2>1, <2>3, Tails DEF ToCome, Sound
<1>3. CASE holder.mem.file # None /\ Recognised(holder.mem)
  <2>1. /\ holder'.todo = <<"write", "save">> /\ holder'.target = journal.file.target
        /\ holder'.mem.file = None => holder'.body = journal.file.bytes
        /\ holder'.mem.file # None => /\ holder'.mem.file.target = journal.file.target
                                      /\ holder'.mem.file.bytes = journal.file.bytes
                                      /\ holder'.mem.file.boot = journal.file.boot
    BY <1>3, NoneAssumption DEF FileRestored
  <2> QED BY <1>3, <2>1, Tails DEF ToCome, Sound, Fresh
<1> QED BY <1>1, <1>2, <1>3

(* What a decision leaves to be done is in the right order: the original is saved
   before the file is overwritten, and is put back before the journal forgets it. *)
LEMMA FileDecide ==
    ASSUME Typed, Holding, FileInv, ~moved', ~slipped',
           \/ PruneOwners \/ PruneFile \/ PruneLinks \/ \E i \in Ifaces : PruneLink(i)
           \/ Begin \/ QueryLink \/ SetLink \/ ReleaseFile \/ RepairFile \/ TakeFile
           \/ (RefuseFile \/ KeepFile \/ Close) \/ ClearLink \/ ClearFile
    PROVE  Recorded' /\ ToCome'
<1> USE DEF Typed
<1>1. UNCHANGED <<file, journal, link, boot, moved, slipped>>
  BY DecideIs DEF host
<1>2. Recorded /\ ToCome /\ Recorded'
  BY <1>1, RecordedStays DEF FileInv
<1> SUFFICES ASSUME holder' # None PROVE ToCome'
  BY <1>2 DEF ToCome
<1>3. CASE PruneOwners
  <2>1. holder # None /\ holder.mem.file = journal.file
    BY <1>3, PruneOwnersIs, Tails DEF Holding
  <2>2. \/ holder'.mem.file = journal.file
        \/ holder'.mem.file = None /\ file[link] \notin Dns
    BY <1>2, <1>3, <2>1, PruneOwnersIs DEF Recorded, Fresh
  <2>3. holder'.mem.file # None => Fresh(holder'.mem.file)
    BY <1>3, PruneOwnersIs DEF Fresh
  <2>4. holder'.todo \in {<<>>, <<"save">>}
    BY <1>3, PruneOwnersIs
  <2> QED BY <1>1, <1>2, <2>2, <2>3, <2>4, Tails DEF ToCome, Recorded, Sound, Fresh
<1>4. CASE PruneFile
  <2>1. /\ holder # None /\ holder.mem.file = journal.file /\ Sound(holder.mem)
        /\ holder.mem.file # None => Fresh(holder.mem.file)
    BY <1>2, <1>4, PruneFileIs, Tails DEF Holding, ToCome
  <2>2. CASE FileRestored(holder.mem)
    BY <1>1, <1>2, <2>1, <2>2, RestoreToCome
  <2>3. CASE holder'.mem = holder.mem /\ holder'.todo = <<>>
    BY <1>1, <2>1, <2>3, Tails DEF ToCome, Sound, Fresh
  <2> QED BY <1>4, <2>2, <2>3, PruneFileIs
<1>5. CASE ClearFile
  <2>1. /\ holder # None /\ holder.mem.file = journal.file /\ Sound(holder.mem)
        /\ holder.mem.file # None => Fresh(holder.mem.file)
    BY <1>2, <1>5, ClearFileIs, Tails DEF Holding, ToCome
  <2>2. CASE FileRestored(holder.mem)
    BY <1>1, <1>2, <2>1, <2>2, RestoreToCome
  <2>3. CASE holder'.mem.file = holder.mem.file /\ holder'.todo = <<"save">>
    BY <1>1, <1>2, <2>1, <2>3, Tails DEF ToCome, Sound, Fresh, Recorded
  <2> QED BY <1>5, <2>2, <2>3, ClearFileIs
<1>6. CASE ReleaseFile
  BY <1>2, <1>6, ReleaseFileIs DEF ToCome, Sound, Retargeted
<1>7. CASE RepairFile \/ TakeFile
  <2>1. /\ holder # None /\ holder.mem.file = journal.file /\ Sound(holder.mem)
        /\ holder.mem.file # None => Fresh(holder.mem.file)
    BY <1>2, <1>7, TakeFileIs, Tails DEF Holding, ToCome
  <2>2. /\ holder'.todo = <<"save", "write">> /\ holder'.target = link /\ holder'.mem.file # None
        /\ holder'.mem.file.target = link
        /\ IF holder.mem.file = None
           THEN holder'.mem.file.bytes = file[link] /\ holder'.mem.file.boot = boot
           ELSE /\ holder'.mem.file.bytes = holder.mem.file.bytes
                /\ holder'.mem.file.boot = holder.mem.file.boot
    BY <1>7, TakeFileIs, NoneAssumption
  <2>3. holder'.mem.file.bytes \notin Dns
    BY <1>2, <2>1, <2>2 DEF Sound, Recorded
  <2>4. Fresh(holder'.mem.file)
    BY <2>1, <2>2 DEF Sound, Fresh
  <2> QED BY <1>1, <2>2, <2>3, <2>4, Tails DEF ToCome, Sound, Fresh
<1>8. CASE RefuseFile \/ KeepFile \/ Close
  BY <1>8, CloseIs
<1>9. ASSUME holder # None, holder.todo = <<>>, holder.at \notin {"prune", "clear_file", "done"},
             holder'.mem.file = holder.mem.file, holder'.todo \in {<<>>, <<"save">>}
      PROVE  ToCome'
  <2>1. /\ holder.mem.file = journal.file /\ Sound(holder.mem)
        /\ holder.mem.file # None => Fresh(holder.mem.file)
    BY <1>2, <1>9, Tails DEF Holding, ToCome
  <2> QED BY <1>1, <1>2, <1>9, <2>1, Tails DEF ToCome, Sound, Fresh, Recorded
<1>10. CASE PruneLinks
  BY <1>9, <1>10, PruneLinksIs
<1>11. ASSUME NEW i \in Ifaces, PruneLink(i) PROVE ToCome'
  BY <1>9, <1>11, PruneLinkIs
<1>12. CASE Begin
  BY <1>9, <1>12, BeginIs
<1>13. CASE QueryLink
  BY <1>9, <1>13, QueryLinkIs
<1>14. CASE SetLink
  BY <1>9, <1>14, SetLinkIs
<1>15. CASE ClearLink
  BY <1>9, <1>15, ClearLinkIs
<1> QED BY <1>3, <1>4, <1>5, <1>6, <1>7, <1>8, <1>10, <1>11, <1>12, <1>13, <1>14, <1>15

(* That a body of ours was forgotten is itself never forgotten. *)
LEMMA SlippedStays ==
    ASSUME TypeOK, Saved \/ Written, slipped
    PROVE  slipped'
<1>1. CASE Saved
  <2>1. slipped' = (slipped \/ (Slip /\ holder.mem.file = None))
    BY <1>1 DEF Saved
  <2> QED BY <2>1, Zenon
<1>2. CASE Written
  BY <1>2 DEF Written
<1> QED BY <1>1, <1>2

(* An effect that takes place, whether it is reported or not. *)
LEMMA SavedFile ==
    ASSUME Typed, Holding, Recorded, ToCome, Saved, ~slipped'
    PROVE  /\ Recorded' /\ holder.todo \in {<<"save">>, <<"save", "write">>}
           /\ UNCHANGED <<file, link, boot, moved>> /\ journal' = holder.mem
<1>1. /\ holder # None /\ holder.todo # <<>> /\ Head(holder.todo) = "save" /\ journal' = holder.mem
      /\ ~(Slip /\ holder.mem.file = None) /\ UNCHANGED <<file, link, boot, moved>>
  BY DEF Saved, Pending, host
<1>2. holder.todo \in {<<"save">>, <<"save", "write">>} /\ holder.at # "prune"
  BY <1>1, Tails DEF Holding
<1>3. holder.mem.file = None => file[link] \notin Dns
  BY <1>1, <1>2 DEF ToCome
<1>4. Sound(holder.mem) /\ (holder.mem.file # None => Fresh(holder.mem.file))
  BY <1>1, <1>2 DEF ToCome
<1>5. Recorded'
  BY <1>1, <1>3, <1>4 DEF Recorded, Sound, Fresh
<1> QED BY <1>1, <1>2, <1>5

(* The same for the resolver file (replace_file). *)
LEMMA WrittenFile ==
    ASSUME Typed, Holding, Recorded, ToCome, Written
    PROVE  /\ Recorded' /\ holder.todo \in {<<"write">>, <<"write", "save">>}
           /\ UNCHANGED <<journal, link, boot, moved, slipped>> /\ file'[link] = holder.body
<1>1. /\ holder # None /\ holder.todo # <<>> /\ Head(holder.todo) = "write"
      /\ file' = [file EXCEPT ![holder.target] = holder.body]
      /\ UNCHANGED <<journal, link, boot, moved, slipped>>
  BY DEF Written, Pending, host
<1>2. holder.todo \in {<<"write">>, <<"write", "save">>}
  BY <1>1, Tails DEF Holding
<1>3. holder.target = link /\ journal.file # None /\ Fresh(journal.file)
  BY <1>1, <1>2 DEF ToCome
<1>4. file'[link] = holder.body
  BY <1>1, <1>3 DEF Typed, TypeOK
<1>5. Recorded'
  BY <1>1, <1>3 DEF Recorded, Sound, Fresh
<1> QED BY <1>1, <1>2, <1>4, <1>5

(* Every step keeps the file accounted for, unless it moves the link or forgets a body
   of ours. *)
LEMMA FileStep ==
    ASSUME Typed, Holding, FileInv, [Next]_vars
    PROVE  FileInv'
<1> USE DEF Typed
<1> SUFFICES ASSUME ~moved', ~slipped' PROVE Recorded' /\ ToCome'
  BY DEF FileInv
<1>1. ASSUME NEW i \in Ifaces, NEW op \in {"set", "verify", "clear"}, NEW dns \in Dns \cup {None},
             Open(i, op, dns)
      PROVE  Recorded' /\ ToCome'
  <2>1. UNCHANGED <<file, journal, link, boot, moved, slipped>> /\ Recorded
    BY <1>1 DEF Open, still, host, FileInv
  <2>2. ToCome'
    BY <1>1, <2>1, OpenIs, Tails DEF ToCome, Recorded, Sound
  <2> QED BY <2>1, <2>2, RecordedStays
<1>2. CASE Perform
  <2>1. /\ holder # None /\ SameOperation /\ holder'.todo = Tail(holder.todo)
        /\ Saved \/ Written
    BY <1>2, PerformIs
  <2>2. Recorded /\ ToCome
    BY <2>1, SlippedStays DEF FileInv, Saved, Written, host
  <2>3. CASE Saved
    <3>1. /\ Recorded' /\ holder.todo \in {<<"save">>, <<"save", "write">>}
          /\ UNCHANGED <<file, link, boot>> /\ journal' = holder.mem
      BY <2>2, <2>3, SavedFile
    <3>2. Sound(holder.mem) /\ (holder.mem.file # None => Fresh(holder.mem.file)) /\ holder.at # "prune"
      BY <2>1, <2>2, <3>1, Tails DEF ToCome, Holding
    <3>3. CASE holder.todo = <<"save">>
      BY <2>1, <3>1, <3>2, <3>3, Tails DEF ToCome, Sound, Fresh, SameOperation
    <3>4. CASE holder.todo = <<"save", "write">>
      BY <2>1, <2>2, <3>1, <3>2, <3>4, Tails DEF ToCome, Sound, Fresh, SameOperation
    <3> QED BY <3>1, <3>3, <3>4
  <2>4. CASE Written
    <3>1. /\ Recorded' /\ holder.todo \in {<<"write">>, <<"write", "save">>}
          /\ UNCHANGED <<journal, link, boot>> /\ file'[link] = holder.body
      BY <2>2, <2>4, WrittenFile
    <3>2. Sound(holder.mem) /\ (holder.mem.file # None => Fresh(holder.mem.file)) /\ holder.at # "prune"
      BY <2>1, <2>2, <3>1, Tails DEF ToCome, Holding
    <3>3. CASE holder.todo = <<"write">>
      BY <2>1, <3>1, <3>2, <3>3, Tails DEF ToCome, Sound, Fresh, SameOperation
    <3>4. CASE holder.todo = <<"write", "save">>
      BY <2>1, <2>2, <3>1, <3>2, <3>4, Tails DEF ToCome, Sound, Fresh, SameOperation
    <3> QED BY <3>1, <3>3, <3>4
  <2> QED BY <2>1, <2>3, <2>4
<1>3. CASE Fail
  <2>1. Recorded /\ ToCome
    BY <1>3, FailIs, SlippedStays DEF FileInv, Saved, Written, host
  <2>2. Recorded' /\ UNCHANGED <<link, boot>>
    BY <1>3, <2>1, FailIs, SavedFile, WrittenFile, RecordedStays DEF host
  <2>3. CASE holder' = None
    BY <2>2, <2>3 DEF ToCome
  <2>4. CASE holder.at = "clear_file" /\ SameOperation /\ holder'.todo = <<>> /\ holder # None
    BY <2>1, <2>2, <2>4, Tails DEF ToCome, Sound, Fresh, SameOperation
  <2> QED BY <1>3, <2>3, <2>4, FailIs
<1>4. CASE UNCHANGED <<file, journal, link, boot, moved, slipped>> /\ holder' \in {holder, None}
  <2>1. Recorded /\ ToCome
    BY <1>4 DEF FileInv
  <2>2. ToCome'
    BY <1>4, <2>1 DEF ToCome, Sound, Fresh, Slip
  <2> QED BY <1>4, <2>1, <2>2, RecordedStays
<1>5. ASSUME NEW i \in Ifaces, Start(i) PROVE Recorded' /\ ToCome'
  BY <1>4, <1>5 DEF Start
<1>6. ASSUME NEW i \in Ifaces, Stop(i) PROVE Recorded' /\ ToCome'
  BY <1>4, <1>6 DEF Stop
<1>7. CASE Reboot
  <2>1. Recorded /\ holder' = None /\ UNCHANGED <<journal, link>> /\ boot' = boot + 1 /\ boot \in Nat
    BY <1>7, ConstantsAssumption DEF Reboot, FileInv, TypeOK
  <2>2. PICK c \in Foreign \cup {Absent} : file' = [t \in Targets |-> IF t \in Volatile THEN c ELSE file[t]]
    BY <1>7 DEF Reboot
  <2>3. file'[link] = IF link \in Volatile THEN c ELSE file[link]
    BY <2>2 DEF TypeOK
  <2>4. c \notin Dns
    BY ConstantsAssumption
  <2>5. Recorded'
    BY <2>1, <2>3, <2>4 DEF Recorded, Sound, Fresh
  <2> QED BY <2>1, <2>5 DEF ToCome
<1>8. ASSUME NEW c \in Foreign, ForeignWrite(c) PROVE Recorded' /\ ToCome'
  <2>1. /\ Recorded /\ ToCome /\ UNCHANGED <<journal, link, boot, holder>>
        /\ file' = [file EXCEPT ![link] = c]
    BY <1>8 DEF ForeignWrite, FileInv
  <2>2. file'[link] \notin Dns
    BY <2>1, ConstantsAssumption DEF TypeOK
  <2> QED BY <2>1, <2>2 DEF Recorded, ToCome, Sound, Fresh
<1>9. ASSUME NEW t \in Targets, Retarget(t) PROVE Recorded' /\ ToCome'
  BY <1>9 DEF Retarget
<1>10. CASE UNCHANGED vars
  BY <1>4, <1>10 DEF vars
<1> QED BY NextIs, FileDecide, <1>1, <1>2, <1>3, <1>5, <1>6, <1>7, <1>8, <1>9, <1>10

(* The original while nobody else touched the resolver: no third body is anywhere. *)
OrigInv ==
    external = 0 =>
        /\ ~moved
        /\ link \notin Volatile /\ ~slipped =>
              /\ file[link] \in Dns \cup {Orig}
              /\ journal.file # None => journal.file.bytes \in Dns \cup {Orig}
              /\ holder # None =>
                    /\ holder.mem.file # None => holder.mem.file.bytes \in Dns \cup {Orig}
                    /\ holder.todo \notin {<<>>, <<"save">>} => holder.body \in Dns \cup {Orig}

(* At the start the original is in the file. *)
LEMMA OrigStart ==
    ASSUME Init
    PROVE  OrigInv
BY DEF Init, OrigInv

(* A step that leaves the host alone: what it saves or writes it found in the file, in the
   journal or among the owners. *)
LEMMA OrigFound ==
    ASSUME OrigInv, UNCHANGED <<external, moved, link>>, slipped => slipped',
           external = 0 /\ ~slipped /\ link \notin Volatile =>
              /\ file'[link] \in {file[link]} \cup Dns \cup {Orig}
              /\ journal'.file # None => journal'.file.bytes \in Dns \cup {Orig}
              /\ holder' # None =>
                    /\ holder'.mem.file # None => holder'.mem.file.bytes \in Dns \cup {Orig}
                    /\ holder'.todo \notin {<<>>, <<"save">>} => holder'.body \in Dns \cup {Orig}
    PROVE  OrigInv'
BY DEF OrigInv

(* A decision brings no third body in. *)
LEMMA OrigDecide ==
    ASSUME Typed, Holding, OrigInv,
           \/ PruneOwners \/ PruneFile \/ PruneLinks \/ \E i \in Ifaces : PruneLink(i)
           \/ Begin \/ QueryLink \/ SetLink \/ ReleaseFile \/ RepairFile \/ TakeFile
           \/ (RefuseFile \/ KeepFile \/ Close) \/ ClearLink \/ ClearFile
    PROVE  OrigInv'
<1> USE DEF Typed
<1>1. UNCHANGED <<file, journal, slipped, external, moved, link>>
  BY DecideIs DEF host
<1> SUFFICES ASSUME external = 0, ~slipped, link \notin Volatile, holder' # None
             PROVE  /\ holder'.mem.file # None => holder'.mem.file.bytes \in Dns \cup {Orig}
                    /\ holder'.todo \notin {<<>>, <<"save">>} => holder'.body \in Dns \cup {Orig}
  BY <1>1, OrigFound DEF OrigInv
<1>2. holder # None /\ holder.mem.file # None => holder.mem.file.bytes \in Dns \cup {Orig}
  BY DEF OrigInv
<1>3. file[link] \in Dns \cup {Orig}
  BY DEF OrigInv
<1>4. CASE PruneOwners
  BY <1>2, <1>4, PruneOwnersIs, Tails
<1>5. ASSUME FileRestored(holder.mem), holder # None
      PROVE  /\ holder'.mem.file # None => holder'.mem.file.bytes \in Dns \cup {Orig}
             /\ holder'.todo \notin {<<>>, <<"save">>} => holder'.body \in Dns \cup {Orig}
  BY <1>2, <1>5 DEF FileRestored
<1>6. CASE PruneFile
  BY <1>2, <1>5, <1>6, PruneFileIs
<1>7. CASE ClearFile
  BY <1>2, <1>5, <1>7, ClearFileIs
<1>8. CASE ReleaseFile
  BY <1>8, ReleaseFileIs
<1>9. CASE RepairFile \/ TakeFile
  BY <1>2, <1>3, <1>9, TakeFileIs
<1>10. CASE RefuseFile \/ KeepFile \/ Close
  BY <1>10, CloseIs
<1>11. CASE PruneLinks
  BY <1>2, <1>11, PruneLinksIs
<1>12. ASSUME NEW i \in Ifaces, PruneLink(i)
       PROVE  /\ holder'.mem.file # None => holder'.mem.file.bytes \in Dns \cup {Orig}
              /\ holder'.todo \notin {<<>>, <<"save">>} => holder'.body \in Dns \cup {Orig}
  BY <1>2, <1>12, PruneLinkIs
<1>13. CASE Begin
  BY <1>2, <1>13, BeginIs
<1>14. CASE QueryLink
  BY <1>2, <1>14, QueryLinkIs
<1>15. CASE SetLink
  BY <1>2, <1>15, SetLinkIs
<1>16. CASE ClearLink
  BY <1>2, <1>16, ClearLinkIs
<1> QED BY <1>4, <1>6, <1>7, <1>8, <1>9, <1>10, <1>11, <1>12, <1>13, <1>14, <1>15, <1>16

(* Nor does any other step, while nobody else touches the resolver. *)
LEMMA OrigStep ==
    ASSUME Typed, Holding, FileInv, OrigInv, [Next]_vars
    PROVE  OrigInv'
<1> USE DEF Typed
<1>1. ASSUME NEW i \in Ifaces, NEW op \in {"set", "verify", "clear"}, NEW dns \in Dns \cup {None},
             Open(i, op, dns)
      PROVE  OrigInv'
  BY <1>1, OpenIs, OrigFound DEF OrigInv, still, host
<1>2. ASSUME Saved \/ Written \/ UNCHANGED <<file, res, journal, slipped, host>>, holder # None,
             holder.todo # <<>>
      PROVE  /\ UNCHANGED <<external, moved, link>> /\ (slipped => slipped')
             /\ external = 0 /\ ~slipped /\ link \notin Volatile =>
                   /\ file'[link] \in {file[link]} \cup Dns \cup {Orig}
                   /\ journal'.file # None => journal'.file.bytes \in Dns \cup {Orig}
  <2>1. UNCHANGED <<external, moved, link>> /\ (slipped => slipped')
    BY <1>2, SlippedStays DEF Saved, Written, host
  <2>2. ASSUME external = 0, ~slipped, link \notin Volatile
        PROVE  /\ file'[link] \in {file[link]} \cup Dns \cup {Orig}
               /\ journal'.file # None => journal'.file.bytes \in Dns \cup {Orig}
    <3>1. CASE Saved
      BY <1>2, <2>2, <3>1 DEF Saved, OrigInv
    <3>2. CASE Written
      <4>1. Recorded /\ ToCome
        BY <2>2 DEF FileInv, OrigInv
      <4>2. file'[link] = holder.body /\ holder.todo \in {<<"write">>, <<"write", "save">>} /\ journal' = journal
        BY <3>2, <4>1, WrittenFile
      <4> QED BY <1>2, <2>2, <4>2, Tails DEF OrigInv
    <3>3. CASE UNCHANGED <<file, res, journal, slipped, host>>
      BY <2>2, <3>3 DEF OrigInv
    <3> QED BY <1>2, <3>1, <3>2, <3>3
  <2> QED BY <2>1, <2>2
<1>3. CASE Perform
  <2>1. /\ holder # None /\ SameOperation /\ holder'.todo = Tail(holder.todo) /\ holder.todo # <<>>
        /\ Saved \/ Written
    BY <1>3, PerformIs
  <2>2. holder'.todo \notin {<<>>, <<"save">>} => holder.todo \notin {<<>>, <<"save">>}
    BY <2>1, Tails
  <2>3. /\ UNCHANGED <<external, moved, link>> /\ (slipped => slipped')
        /\ external = 0 /\ ~slipped /\ link \notin Volatile =>
              /\ file'[link] \in {file[link]} \cup Dns \cup {Orig}
              /\ journal'.file # None => journal'.file.bytes \in Dns \cup {Orig}
    BY <1>2, <2>1
  <2> QED BY <2>1, <2>2, <2>3, OrigFound DEF OrigInv, SameOperation
<1>4. CASE Fail
  <2>1. /\ holder # None /\ holder.todo # <<>>
        /\ Saved \/ Written \/ UNCHANGED <<file, res, journal, slipped, host>>
        /\ holder' = None \/ (SameOperation /\ holder'.todo = <<>>)
    BY <1>4, FailIs
  <2>2. /\ UNCHANGED <<external, moved, link>> /\ (slipped => slipped')
        /\ external = 0 /\ ~slipped /\ link \notin Volatile =>
              /\ file'[link] \in {file[link]} \cup Dns \cup {Orig}
              /\ journal'.file # None => journal'.file.bytes \in Dns \cup {Orig}
    BY <1>2, <2>1
  <2> QED BY <2>1, <2>2, OrigFound DEF OrigInv, SameOperation
<1>5. CASE UNCHANGED <<file, journal, link, external, moved, slipped>> /\ holder' \in {holder, None}
  BY <1>5 DEF OrigInv
<1>6. ASSUME NEW i \in Ifaces, Start(i) PROVE OrigInv'
  BY <1>5, <1>6 DEF Start
<1>7. ASSUME NEW i \in Ifaces, Stop(i) PROVE OrigInv'
  BY <1>5, <1>7 DEF Stop
<1>8. CASE Reboot
  <2>1. link \notin Volatile => file'[link] = file[link]
    BY <1>8 DEF Reboot, TypeOK
  <2> QED BY <1>8, <2>1 DEF Reboot, OrigInv
<1>9. ASSUME NEW c \in Foreign, ForeignWrite(c) PROVE OrigInv'
  <2>1. external' # 0
    BY <1>9, ConstantsAssumption DEF ForeignWrite, TypeOK
  <2> QED BY <2>1 DEF OrigInv
<1>10. ASSUME NEW t \in Targets, Retarget(t) PROVE OrigInv'
  <2>1. external' # 0
    BY <1>10, ConstantsAssumption DEF Retarget, TypeOK
  <2> QED BY <2>1 DEF OrigInv
<1>11. CASE UNCHANGED vars
  BY <1>5, <1>11 DEF vars
<1> QED BY NextIs, OrigDecide, <1>1, <1>3, <1>4, <1>6, <1>7, <1>8, <1>9, <1>10, <1>11

=============================================================================
