--------------------------- MODULE DnsJournalSteps ---------------------------
(***************************************************************************)
(* What the steps of DnsJournal do, for any interfaces, servers, files and *)
(* bounds: of each action, the fields of the operation under the lock that *)
(* it sets, and the types and the shape of the operation that all of them  *)
(* keep.                                                                   *)
(***************************************************************************)
EXTENDS DnsJournal, TLAPS

-----------------------------------------------------------------------------
(* The operators on journals and operations. *)

Stages == {"prune", "restore", "stale", "links", "op", "set_resolved", "set_file",
           "clear_file", "done"}
Effects == {"save", "write"}

(* The top of the stack is one of the owners. *)
LEMMA TopOwner ==
    ASSUME NEW j \in Journal, j.owners # <<>>
    PROVE  Top(j) \in Owner
BY DEF Journal, Top

(* Staging a write leaves the snapshot alone (stage_write). *)
LEMMA StageKeeps ==
    ASSUME NEW f \in OriginalFile, NEW body \in Contents, NEW d \in BOOLEAN
    PROVE  /\ [Stage(f, body) EXCEPT !.drift = d] \in OriginalFile
           /\ [Stage(f, body) EXCEPT !.drift = d].target = f.target
           /\ [Stage(f, body) EXCEPT !.drift = d].bytes = f.bytes
           /\ [Stage(f, body) EXCEPT !.drift = d].boot = f.boot
<1>1. Stage(f, body) \in OriginalFile /\ Stage(f, body).target = f.target
      /\ Stage(f, body).bytes = f.bytes /\ Stage(f, body).boot = f.boot
  BY DEF Stage, OriginalFile
<1> QED BY <1>1 DEF OriginalFile

(* What is left of a journal that gave the file up (release_file). *)
LEMMA ReleasedIs ==
    ASSUME NEW j \in Journal
    PROVE  /\ Released(j) \in Journal
           /\ Released(j).file = None /\ Released(j).owners = <<>>
           /\ Released(j).resolved = j.resolved
<1>1. <<>> \in Seq(Owner)
  OBVIOUS
<1> QED BY <1>1 DEF Journal, Released

(* What a restore saves: the snapshot stays for the next owner, or goes with the last. *)
LEMMA AfterRestoreIs ==
    ASSUME NEW j \in Journal, j.file # None
    PROVE  /\ AfterRestore(j) \in Journal
           /\ AfterRestore(j).owners = j.owners /\ AfterRestore(j).resolved = j.resolved
           /\ j.owners = <<>> => AfterRestore(j).file = None
           /\ j.owners # <<>> => /\ AfterRestore(j).file \in OriginalFile
                                 /\ AfterRestore(j).file.target = j.file.target
                                 /\ AfterRestore(j).file.bytes = j.file.bytes
                                 /\ AfterRestore(j).file.boot = j.file.boot
<1>1. CASE j.owners = <<>>
  <2>1. AfterRestore(j) = [j EXCEPT !.file = None, !.pending = FALSE]
    BY <1>1 DEF AfterRestore
  <2> QED BY <1>1, <2>1 DEF Journal
<1>2. CASE j.owners # <<>>
  <2> DEFINE f == [j.file EXCEPT !.last = Top(j).dns]
  <2>1. Top(j).dns \in Contents /\ j.file \in OriginalFile
    BY <1>2, TopOwner DEF Owner, Contents, Journal
  <2>2. /\ f \in OriginalFile /\ f.target = j.file.target /\ f.bytes = j.file.bytes
        /\ f.boot = j.file.boot
    BY <2>1 DEF OriginalFile
  <2>3. AfterRestore(j) = [j EXCEPT !.file = f, !.pending = FALSE]
    BY <1>2 DEF AfterRestore
  <2> HIDE DEF f
  <2>4. AfterRestore(j) \in Journal /\ AfterRestore(j).owners = j.owners
        /\ AfterRestore(j).resolved = j.resolved /\ AfterRestore(j).file = f
    BY <2>2, <2>3 DEF Journal
  <2> QED BY <1>2, <2>2, <2>4
<1> QED BY <1>1, <1>2

(* What a restore writes: the original, or the servers of the next owner. *)
LEMMA UnderneathIs ==
    ASSUME NEW j \in Journal, j.file # None
    PROVE  /\ Underneath(j) \in Contents
           /\ j.owners = <<>> => Underneath(j) = j.file.bytes
           /\ j.owners # <<>> => Underneath(j) \in Dns
<1>1. j.owners # <<>> => Top(j).dns \in Dns
  BY TopOwner DEF Owner
<1>2. j.file.bytes \in Contents
  BY DEF Journal, OriginalFile
<1> QED BY <1>1, <1>2 DEF Underneath, Contents

(* What the steps of the operation that holds the lock leave of it. *)
SameCall == /\ holder'.iface = holder.iface /\ holder'.op = holder.op
            /\ holder'.dns = holder.dns /\ holder'.stale = holder.stale

(* A decision without effects. *)
LEMMA ContinueIs ==
    ASSUME holder \in Operation, NEW stage \in Stages, NEW j \in Journal, Continue(stage, j)
    PROVE  /\ holder' \in Operation /\ SameCall /\ holder'.at = stage /\ holder'.mem = j
           /\ holder'.todo = holder.todo
BY DEF Operation, Stages, Continue, SameCall

(* A decision with the effects todo. *)
LEMMA ThenIs ==
    ASSUME holder \in Operation, NEW stage \in Stages, NEW j \in Journal, NEW todo \in Seq(Effects),
           NEW t \in Targets, NEW body \in Contents, Then(stage, j, todo, t, body)
    PROVE  /\ holder' \in Operation /\ SameCall /\ holder'.at = stage /\ holder'.mem = j
           /\ holder'.todo = todo /\ holder'.target = t /\ holder'.body = body
BY DEF Operation, Stages, Effects, Then, SameCall

(* A decision that saves the journal. *)
LEMMA SaveIs ==
    ASSUME holder \in Operation, link \in Targets,
           NEW stage \in Stages, NEW j \in Journal, Save(stage, j)
    PROVE  /\ holder' \in Operation /\ SameCall /\ holder'.at = stage /\ holder'.mem = j
           /\ holder'.todo = <<"save">>
<1>1. <<"save">> \in Seq(Effects) /\ Absent \in Contents
  BY DEF Effects, Contents
<1> QED BY <1>1, ThenIs DEF Save

(* What restore_file, given j, leaves to be done: nothing, to give the file up, or to put
   back the original or the next owner's servers. *)
FileRestored(j) ==
    \/ j.file = None /\ holder'.mem.file = None /\ holder'.todo = <<>>
    \/ j.file # None /\ ~Recognised(j) /\ holder'.mem.file = None /\ holder'.todo = <<"save">>
    \/ /\ j.file # None /\ Recognised(j)
       /\ holder'.todo = <<"write", "save">> /\ holder'.target = j.file.target
       /\ \/ holder'.mem.file = None /\ holder'.body = j.file.bytes
          \/ /\ holder'.mem.file \in OriginalFile /\ holder'.body \in Dns
             /\ holder'.mem.file.target = j.file.target
             /\ holder'.mem.file.bytes = j.file.bytes /\ holder'.mem.file.boot = j.file.boot

(* What restore_file leaves of the journal. *)
LEMMA RestoreIs ==
    ASSUME holder \in Operation, link \in Targets, holder.todo = <<>>,
           NEW stage \in Stages, NEW j \in Journal, Restore(stage, j)
    PROVE  /\ holder' \in Operation /\ SameCall /\ holder'.at = stage
           /\ holder'.mem.resolved = j.resolved /\ holder'.mem.owners \in {j.owners, <<>>}
           /\ FileRestored(j) /\ (holder'.todo = <<>> => holder'.mem = j)
<1>1. CASE j.file = None
  BY <1>1, ContinueIs DEF Restore, FileRestored
<1>2. CASE j.file # None /\ ~Recognised(j)
  <2>1. Save(stage, Released(j))
    BY <1>2 DEF Restore
  <2> QED BY <1>2, <2>1, ReleasedIs, SaveIs DEF FileRestored
<1>3. CASE j.file # None /\ Recognised(j)
  <2>1. Then(stage, AfterRestore(j), <<"write", "save">>, j.file.target, Underneath(j))
    BY <1>3 DEF Restore
  <2>2. <<"write", "save">> \in Seq(Effects) /\ j.file.target \in Targets
    BY <1>3 DEF Effects, Journal, OriginalFile
  <2>3. /\ holder' \in Operation /\ SameCall /\ holder'.at = stage /\ holder'.mem = AfterRestore(j)
        /\ holder'.todo = <<"write", "save">> /\ holder'.target = j.file.target
        /\ holder'.body = Underneath(j)
    BY <1>3, <2>1, <2>2, AfterRestoreIs, UnderneathIs, ThenIs
  <2> QED BY <1>3, <2>3, AfterRestoreIs, UnderneathIs DEF FileRestored
<1> QED BY <1>1, <1>2, <1>3

-----------------------------------------------------------------------------
(* Types. *)

(* What Vec::retain returns is a list of owners again. *)
Retains == \A s \in Seq(Owner) : \A K \in SUBSET DOMAIN s : Retain(s, K) \in Seq(Owner)

(* The servers an operation is about to put in force are known, and the entries it is about
   to prune are there. *)
CallOK ==
    holder # None =>
        /\ holder.op = "set" => holder.dns \in Dns
        /\ holder.at = "set_file" => holder.dns \in Dns /\ holder.op # "clear"
        /\ holder.at = "set_resolved" => holder.op = "set"
        /\ holder.at # "links" => holder.stale = {}
        /\ \A i \in holder.stale : holder.mem.resolved[i] # None

Typed == Retains /\ TypeOK /\ CallOK

(* The fields of the operation that holds the lock. *)
LEMMA HolderTyped ==
    ASSUME TypeOK, holder # None
    PROVE  /\ holder \in Operation /\ holder.mem \in Journal /\ holder.iface \in Ifaces
           /\ holder.todo \in Seq(Effects) /\ link \in Targets /\ holder.at \in Stages
           /\ holder.target \in Targets /\ holder.body \in Contents
BY DEF TypeOK, Operation, Effects, Stages

(* The living owners are a list of owners. *)
LEMMA LivingSeq ==
    ASSUME Retains, NEW o \in Seq(Owner)
    PROVE  Living(o) \in Seq(Owner)
BY DEF Living, Retains

(* So are the owners other than i. *)
LEMMA OthersSeq ==
    ASSUME Retains, NEW o \in Seq(Owner), NEW i
    PROVE  Others(o, i) \in Seq(Owner)
BY DEF Others, Retains

(* prune, of the owners. *)
LEMMA PruneOwnersIs ==
    ASSUME Retains, TypeOK, PruneOwners
    PROVE  /\ holder # None /\ holder.at = "prune" /\ holder.todo = <<>>
           /\ holder' \in Operation /\ SameCall /\ holder'.at = "restore"
           /\ holder'.mem.resolved = holder.mem.resolved
           /\ \E o \in {holder.mem.owners, <<>>} : holder'.mem.owners = Living(o)
           /\ \/ holder'.mem.file = holder.mem.file
              \/ /\ holder'.mem.file = None /\ holder.mem.file # None
                 /\ holder.mem.file.boot # boot /\ holder.mem.file.target \in Volatile
           /\ holder'.mem.file # None /\ holder'.mem.file.target \in Volatile => holder'.mem.file.boot = boot
           /\ \/ holder'.todo = <<>> /\ holder'.mem = holder.mem
              \/ holder'.todo = <<"save">>
<1> DEFINE stays == ~(holder.mem.file # None /\ holder.mem.file.boot # boot
                      /\ holder.mem.file.target \in Volatile)
           j == IF ~stays THEN Released(holder.mem) ELSE holder.mem
           left == Living(j.owners)
           gone == left # j.owners /\ (left = <<>> \/ left[Len(left)].iface # Top(j).iface)
           pruned == [j EXCEPT !.owners = left, !.pending = @ \/ gone]
<1>1. holder # None /\ holder.at = "prune" /\ holder.todo = <<>>
  BY DEF PruneOwners, At
<1>2. IF pruned = holder.mem THEN Continue("restore", pruned) ELSE Save("restore", pruned)
  BY DEF PruneOwners
<1>3. holder \in Operation /\ holder.mem \in Journal /\ link \in Targets /\ "restore" \in Stages
  BY <1>1, HolderTyped DEF Stages
<1>4. /\ j \in Journal /\ j.resolved = holder.mem.resolved /\ j.owners \in {holder.mem.owners, <<>>}
      /\ stays => j = holder.mem
      /\ ~stays => j.file = None
  BY <1>3, ReleasedIs
<1> HIDE DEF j, stays
<1>5. left \in Seq(Owner)
  BY <1>4, LivingSeq DEF Journal
<1>6. (j.pending \/ gone) \in BOOLEAN
  OBVIOUS
<1> HIDE DEF left, gone
<1>7. /\ pruned \in Journal /\ pruned.owners = left /\ pruned.resolved = j.resolved
      /\ pruned.file = j.file
  BY <1>4, <1>5, <1>6 DEF Journal
<1> HIDE DEF pruned
<1>8. /\ holder' \in Operation /\ SameCall /\ holder'.at = "restore" /\ holder'.mem = pruned
      /\ \/ holder'.todo = <<>> /\ pruned = holder.mem
         \/ holder'.todo = <<"save">>
  BY <1>1, <1>2, <1>3, <1>7, ContinueIs, SaveIs
<1>9. /\ \/ pruned.file = holder.mem.file
         \/ /\ pruned.file = None /\ holder.mem.file # None
            /\ holder.mem.file.boot # boot /\ holder.mem.file.target \in Volatile
      /\ pruned.file # None /\ pruned.file.target \in Volatile => pruned.file.boot = boot
  BY <1>4, <1>7 DEF stays
<1> QED BY <1>1, <1>4, <1>7, <1>8, <1>9 DEF left

(* prune, of the file: it is restored when the top owner is gone. *)
LEMMA PruneFileIs ==
    ASSUME TypeOK, PruneFile
    PROVE  /\ holder # None /\ holder.at = "restore" /\ holder.todo = <<>>
           /\ holder' \in Operation /\ SameCall /\ holder'.at = "stale"
           /\ holder'.mem.resolved = holder.mem.resolved
           /\ holder'.mem.owners \in {holder.mem.owners, <<>>}
           /\ \/ FileRestored(holder.mem)
              \/ holder'.mem = holder.mem /\ holder'.todo = <<>>
           /\ holder'.todo = <<>> => holder'.mem = holder.mem
<1>1. holder # None /\ holder.at = "restore" /\ holder.todo = <<>>
  BY DEF PruneFile, At
<1>2. holder \in Operation /\ holder.mem \in Journal /\ link \in Targets /\ "stale" \in Stages
  BY <1>1, HolderTyped DEF Stages
<1>3. Restore("stale", holder.mem) \/ Continue("stale", holder.mem)
  BY DEF PruneFile
<1> QED BY <1>1, <1>2, <1>3, RestoreIs, ContinueIs

(* clear_with, of the file. *)
LEMMA ClearFileIs ==
    ASSUME Retains, TypeOK, ClearFile
    PROVE  /\ holder # None /\ holder.at = "clear_file" /\ holder.todo = <<>>
           /\ \/ holder' = None
              \/ /\ holder' \in Operation /\ SameCall /\ holder'.at = "done"
                 /\ holder'.mem.resolved = holder.mem.resolved
                 /\ holder'.mem.owners \in {Others(holder.mem.owners, holder.iface), <<>>}
                 /\ \/ holder'.todo = <<"save">> /\ holder'.mem.file = holder.mem.file
                    \/ FileRestored(holder.mem)
<1> DEFINE i == holder.iface
           o == Others(holder.mem.owners, i)
           j == [holder.mem EXCEPT !.owners = o]
<1>1. holder # None /\ holder.at = "clear_file" /\ holder.todo = <<>>
  BY DEF ClearFile, At
<1>2. holder \in Operation /\ holder.mem \in Journal /\ link \in Targets /\ "done" \in Stages
  BY <1>1, HolderTyped DEF Stages
<1>3. o \in Seq(Owner)
  BY <1>2, OthersSeq DEF Journal
<1>4. holder' = None \/ Save("done", j) \/ Restore("done", j)
  BY DEF ClearFile, Return
<1> HIDE DEF o
<1>5. j \in Journal /\ j.owners = o /\ j.resolved = holder.mem.resolved /\ j.file = holder.mem.file
  BY <1>2, <1>3 DEF Journal
<1> HIDE DEF j
<1>6. CASE Save("done", j)
  <2>1. /\ holder' \in Operation /\ SameCall /\ holder'.at = "done" /\ holder'.mem = j
        /\ holder'.todo = <<"save">>
    BY <1>2, <1>5, <1>6, SaveIs
  <2> QED BY <1>1, <1>5, <2>1 DEF o
<1>7. CASE Restore("done", j)
  <2>1. /\ holder' \in Operation /\ SameCall /\ holder'.at = "done"
        /\ holder'.mem.resolved = j.resolved /\ holder'.mem.owners \in {j.owners, <<>>}
        /\ FileRestored(j)
    BY <1>1, <1>2, <1>5, <1>7, RestoreIs
  <2>2. FileRestored(holder.mem)
    BY <1>5, <2>1 DEF FileRestored, Recognised
  <2> QED BY <1>1, <1>5, <2>1, <2>2 DEF o
<1> QED BY <1>1, <1>4, <1>6, <1>7

(* set_file_at: the file is given up, kept, repaired or taken. *)
LEMMA ReleaseFileIs ==
    ASSUME TypeOK, ReleaseFile
    PROVE  /\ holder # None /\ holder.at = "set_file" /\ holder.todo = <<>> /\ Retargeted
           /\ holder' \in Operation /\ SameCall /\ holder'.at = "set_file"
           /\ holder'.mem.resolved = holder.mem.resolved /\ holder'.mem.owners = <<>>
           /\ holder'.mem.file = None /\ holder'.todo = <<"save">>
<1>1. holder # None /\ holder.at = "set_file" /\ holder.todo = <<>> /\ Retargeted
      /\ Save("set_file", Released(holder.mem))
  BY DEF ReleaseFile, At
<1>2. holder \in Operation /\ holder.mem \in Journal /\ link \in Targets /\ "set_file" \in Stages
  BY <1>1, HolderTyped DEF Stages
<1> QED BY <1>1, <1>2, ReleasedIs, SaveIs

Owning == [iface |-> holder.iface, dns |-> holder.dns, proc |-> running[holder.iface]]

(* A repair, and a new or changed owner: the snapshot is the one there is, or of the
   file as it is now (set_file_at). *)
LEMMA TakeFileIs ==
    ASSUME Typed, RepairFile \/ TakeFile
    PROVE  /\ holder # None /\ holder.at = "set_file" /\ holder.todo = <<>> /\ ~Retargeted
           /\ holder' \in Operation /\ SameCall /\ holder'.at = "done"
           /\ holder'.mem.resolved = holder.mem.resolved
           /\ holder'.todo = <<"save", "write">> /\ holder'.target = link /\ holder'.body \in Dns
           /\ holder'.mem.file \in OriginalFile /\ holder'.mem.file.target = link
           /\ IF holder.mem.file = None
              THEN holder'.mem.file.bytes = file[link] /\ holder'.mem.file.boot = boot
              ELSE /\ holder'.mem.file.bytes = holder.mem.file.bytes
                   /\ holder'.mem.file.boot = holder.mem.file.boot
           /\ \/ holder'.mem.owners = holder.mem.owners
              \/ /\ ~Unchanged
                 /\ holder'.mem.owners = Append(Others(holder.mem.owners, holder.iface), Owning)
<1> DEFINE o == Others(holder.mem.owners, holder.iface)
<1>1. holder # None /\ holder.at = "set_file" /\ holder.todo = <<>> /\ ~Retargeted
  BY DEF RepairFile, TakeFile, At
<1>2. /\ holder \in Operation /\ holder.mem \in Journal /\ holder.iface \in Ifaces
      /\ link \in Targets /\ "done" \in Stages
      /\ <<"save", "write">> \in Seq(Effects) /\ holder.dns \in Dns /\ file[link] \in Contents
  BY <1>1, HolderTyped DEF Stages, Effects, Typed, CallOK, TypeOK
<1>3. /\ Original \in OriginalFile /\ Original.target = link
      /\ IF holder.mem.file = None
         THEN Original.bytes = file[link] /\ Original.boot = boot
         ELSE Original.bytes = holder.mem.file.bytes /\ Original.boot = holder.mem.file.boot
  <2>1. boot \in Nat /\ Absent \in Contents
    BY ConstantsAssumption DEF Typed, TypeOK, Contents
  <2>2. CASE holder.mem.file = None
    BY <1>2, <2>1, <2>2 DEF Original, OriginalFile
  <2>3. CASE holder.mem.file # None
    BY <1>1, <1>2, <2>3 DEF Original, Journal, Retargeted
  <2> QED BY <2>2, <2>3
<1>4. o \in Seq(Owner) /\ Owning \in Owner
  <2>1. running[holder.iface] \in Nat
    BY <1>2, ConstantsAssumption DEF Typed, TypeOK
  <2> QED BY <1>2, <2>1, OthersSeq DEF Journal, Owning, Owner, Typed
<1>5. CASE RepairFile
  <2> DEFINE body == Top(holder.mem).dns
             f == [Stage(Original, body) EXCEPT !.drift = TRUE]
             j == [holder.mem EXCEPT !.file = f]
  <2>1. Then("done", j, <<"save", "write">>, link, body) /\ Unchanged
    BY <1>5 DEF RepairFile
  <2>2. body \in Dns
    <3>1. holder.mem.owners # <<>>
      BY <2>1 DEF Unchanged
    <3> QED BY <1>2, <3>1, TopOwner DEF Owner
  <2> HIDE DEF body
  <2>3. f \in OriginalFile /\ f.target = link /\ f.bytes = Original.bytes /\ f.boot = Original.boot
    BY <1>3, <2>2, StageKeeps DEF Contents
  <2> HIDE DEF f
  <2>4. j \in Journal /\ j.file = f /\ j.owners = holder.mem.owners /\ j.resolved = holder.mem.resolved
    BY <1>2, <2>3 DEF Journal
  <2> HIDE DEF j
  <2>5. /\ holder' \in Operation /\ SameCall /\ holder'.at = "done" /\ holder'.mem = j
        /\ holder'.todo = <<"save", "write">> /\ holder'.target = link /\ holder'.body = body
    BY <1>2, <2>1, <2>2, <2>4, ThenIs DEF Contents
  <2> QED BY <1>1, <1>3, <2>2, <2>3, <2>4, <2>5
<1>6. CASE TakeFile
  <2> DEFINE f == [Stage(Original, holder.dns) EXCEPT !.drift = FALSE]
             j == [holder.mem EXCEPT !.owners = Append(o, Owning), !.file = f]
  <2>1. Then("done", j, <<"save", "write">>, link, holder.dns) /\ ~Unchanged
    BY <1>6 DEF TakeFile, Owning
  <2>2. f \in OriginalFile /\ f.target = link /\ f.bytes = Original.bytes /\ f.boot = Original.boot
    BY <1>2, <1>3, StageKeeps DEF Contents
  <2>3. Append(o, Owning) \in Seq(Owner)
    BY <1>4
  <2> HIDE DEF f, o
  <2>4. j \in Journal /\ j.file = f /\ j.owners = Append(o, Owning) /\ j.resolved = holder.mem.resolved
    BY <1>2, <2>2, <2>3 DEF Journal
  <2> HIDE DEF j
  <2>5. /\ holder' \in Operation /\ SameCall /\ holder'.at = "done" /\ holder'.mem = j
        /\ holder'.todo = <<"save", "write">> /\ holder'.target = link /\ holder'.body = holder.dns
    BY <1>2, <2>1, <2>4, ThenIs DEF Contents
  <2> QED BY <1>1, <1>2, <1>3, <2>1, <2>2, <2>4, <2>5 DEF o
<1> QED BY <1>5, <1>6

(* The links. *)
LEMMA PruneLinksIs ==
    ASSUME TypeOK, PruneLinks
    PROVE  /\ holder # None /\ holder.at = "stale" /\ holder.todo = <<>>
           /\ holder' \in Operation /\ holder'.iface = holder.iface /\ holder'.op = holder.op
           /\ holder'.dns = holder.dns /\ holder'.mem = holder.mem /\ holder'.todo = <<>>
           /\ holder'.at = "links"
           /\ holder'.stale = {i \in Ifaces : /\ holder.mem.resolved[i] # None
                                              /\ running[i] # holder.mem.resolved[i].proc}
<1> DEFINE S == {i \in Ifaces : /\ holder.mem.resolved[i] # None
                                /\ running[i] # holder.mem.resolved[i].proc}
<1>1. holder # None /\ holder.at = "stale" /\ holder.todo = <<>>
      /\ holder' = [holder EXCEPT !.at = "links", !.stale = S]
  BY DEF PruneLinks, At, Alive
<1>2. holder \in Operation /\ S \in SUBSET Ifaces
  BY <1>1, HolderTyped
<1> HIDE DEF S
<1>3. /\ holder' \in Operation /\ holder'.iface = holder.iface /\ holder'.op = holder.op
      /\ holder'.dns = holder.dns /\ holder'.mem = holder.mem /\ holder'.todo = <<>>
      /\ holder'.at = "links" /\ holder'.stale = S
  BY <1>1, <1>2 DEF Operation
<1> QED BY <1>1, <1>3 DEF S

(* The entry of a dead process goes, or the operation ends with an error (prune). *)
LEMMA PruneLinkIs ==
    ASSUME TypeOK, NEW i \in Ifaces, PruneLink(i)
    PROVE  /\ holder # None /\ holder.at = "links" /\ holder.todo = <<>> /\ i \in holder.stale
           /\ \/ holder' = None
              \/ /\ holder' \in Operation /\ holder'.iface = holder.iface /\ holder'.op = holder.op
                 /\ holder'.dns = holder.dns /\ holder'.at = "links" /\ holder'.todo = <<"save">>
                 /\ holder'.stale = holder.stale \ {i}
                 /\ holder'.mem \in Journal
                 /\ holder'.mem.file = holder.mem.file /\ holder'.mem.owners = holder.mem.owners
                 /\ holder'.mem.resolved = [holder.mem.resolved EXCEPT ![i] = None]
<1> DEFINE r == [holder.mem.resolved EXCEPT ![i] = None]
           j == [holder.mem EXCEPT !.resolved = r]
<1>1. holder # None /\ holder.at = "links" /\ holder.todo = <<>> /\ i \in holder.stale
  BY DEF PruneLink, At
<1>2. holder' = None \/ holder' = [holder EXCEPT !.mem.resolved[i] = None, !.todo = <<"save">>,
                                                !.stale = @ \ {i}]
  BY DEF PruneLink, Return
<1>3. holder \in Operation /\ holder.mem \in Journal /\ <<"save">> \in Seq(Effects)
  BY <1>1, HolderTyped DEF Effects
<1>4. r \in [Ifaces -> Resolved \cup {None}]
  BY <1>3 DEF Journal
<1>5. [holder EXCEPT !.mem.resolved[i] = None, !.todo = <<"save">>, !.stale = @ \ {i}]
        = [holder EXCEPT !.mem = j, !.todo = <<"save">>, !.stale = @ \ {i}]
  OBVIOUS
<1> HIDE DEF r
<1>6. j \in Journal /\ j.resolved = r /\ j.file = holder.mem.file /\ j.owners = holder.mem.owners
  BY <1>3, <1>4 DEF Journal
<1> HIDE DEF j
<1>7. holder.stale \ {i} \in SUBSET Ifaces
  BY <1>3 DEF Operation
<1>8. CASE holder' = [holder EXCEPT !.mem = j, !.todo = <<"save">>, !.stale = @ \ {i}]
  <2>1. /\ holder' \in Operation /\ holder'.iface = holder.iface /\ holder'.op = holder.op
        /\ holder'.dns = holder.dns /\ holder'.at = holder.at /\ holder'.todo = <<"save">>
        /\ holder'.mem = j /\ holder'.stale = holder.stale \ {i}
    BY <1>3, <1>6, <1>7, <1>8 DEF Operation, Effects
  <2> QED BY <1>1, <1>6, <2>1 DEF r
<1> QED BY <1>1, <1>2, <1>5, <1>8

(* The entry for the link of the caller is made once (set_mode_with). *)
LEMMA QueryLinkIs ==
    ASSUME TypeOK, QueryLink
    PROVE  /\ holder # None /\ holder.at = "op" /\ holder.todo = <<>> /\ holder.op = "set"
           /\ \/ holder' = None
              \/ /\ holder' \in Operation /\ SameCall
                 /\ \/ /\ holder'.at = "set_resolved" /\ holder.mem.resolved[holder.iface] # None
                       /\ holder'.mem = holder.mem /\ holder'.todo = <<>>
                    \/ holder'.at = "set_file" /\ holder'.mem = holder.mem /\ holder'.todo = <<>>
                    \/ /\ holder'.at = "set_resolved" /\ holder.mem.resolved[holder.iface] = None
                       /\ holder'.todo = <<"save">> /\ holder'.mem \in Journal
                       /\ holder'.mem.file = holder.mem.file /\ holder'.mem.owners = holder.mem.owners
                       /\ holder'.mem.resolved = [holder.mem.resolved EXCEPT ![holder.iface] =
                             [saved |-> res[holder.iface], proc |-> running[holder.iface], boot |-> boot]]
<1> DEFINE i == holder.iface
           saved == [saved |-> res[i], proc |-> running[i], boot |-> boot]
           r == [holder.mem.resolved EXCEPT ![i] = saved]
           j == [holder.mem EXCEPT !.resolved = r]
<1>1. holder # None /\ holder.at = "op" /\ holder.todo = <<>> /\ holder.op = "set"
  BY DEF QueryLink, At
<1>2. /\ holder \in Operation /\ holder.mem \in Journal /\ i \in Ifaces /\ link \in Targets
      /\ "set_resolved" \in Stages /\ "set_file" \in Stages
  BY <1>1, HolderTyped DEF Stages
<1>3. saved \in Resolved
  <2>1. res[i] \in Setting /\ running[i] \in Nat /\ boot \in Nat
    BY <1>2, ConstantsAssumption DEF TypeOK
  <2> QED BY <2>1 DEF Resolved
<1>4. \/ holder.mem.resolved[i] # None /\ Continue("set_resolved", holder.mem)
      \/ holder.mem.resolved[i] = None /\ Save("set_resolved", j)
      \/ Continue("set_file", holder.mem)
      \/ holder' = None
  <2>1. [holder.mem EXCEPT !.resolved[i] = saved] = j
    OBVIOUS
  <2> QED BY <2>1 DEF QueryLink, Return
<1> HIDE DEF saved
<1>5. r \in [Ifaces -> Resolved \cup {None}]
  BY <1>2, <1>3 DEF Journal
<1> HIDE DEF r
<1>6. j \in Journal /\ j.resolved = r /\ j.file = holder.mem.file /\ j.owners = holder.mem.owners
  BY <1>2, <1>5 DEF Journal
<1> HIDE DEF j
<1>7. CASE holder.mem.resolved[i] = None /\ Save("set_resolved", j)
  <2>1. /\ holder' \in Operation /\ SameCall /\ holder'.at = "set_resolved" /\ holder'.mem = j
        /\ holder'.todo = <<"save">>
    BY <1>2, <1>6, <1>7, SaveIs
  <2> QED BY <1>1, <1>6, <1>7, <2>1 DEF r, saved
<1> QED BY <1>1, <1>2, <1>4, <1>7, ContinueIs

(* The entry for the link of the caller goes when its settings are back (clear_with). *)
LEMMA ClearLinkIs ==
    ASSUME TypeOK, ClearLink
    PROVE  /\ holder # None /\ holder.at = "op" /\ holder.todo = <<>> /\ holder.op = "clear"
           /\ holder' \in Operation /\ SameCall /\ holder'.at = "clear_file"
           /\ \/ /\ holder.mem.resolved[holder.iface] = None
                 /\ holder'.mem = holder.mem /\ holder'.todo = <<>> /\ res' = res
              \/ /\ holder.mem.resolved[holder.iface] # None
                 /\ holder'.mem = holder.mem /\ holder'.todo = <<>>
                 /\ res' \in PartlyRestored(holder.iface, holder.mem.resolved[holder.iface].saved)
              \/ /\ holder.mem.resolved[holder.iface] # None
                 /\ holder'.todo = <<"save">> /\ holder'.mem \in Journal
                 /\ res' = [res EXCEPT ![holder.iface] = holder.mem.resolved[holder.iface].saved]
                 /\ holder'.mem.file = holder.mem.file /\ holder'.mem.owners = holder.mem.owners
                 /\ holder'.mem.resolved = [holder.mem.resolved EXCEPT ![holder.iface] = None]
<1> DEFINE i == holder.iface
           r == [holder.mem.resolved EXCEPT ![i] = None]
           j == [holder.mem EXCEPT !.resolved = r]
<1>1. holder # None /\ holder.at = "op" /\ holder.todo = <<>> /\ holder.op = "clear"
  BY DEF ClearLink, At
<1>2. /\ holder \in Operation /\ holder.mem \in Journal /\ i \in Ifaces /\ link \in Targets
      /\ "clear_file" \in Stages
  BY <1>1, HolderTyped DEF Stages
<1>3. \/ /\ holder.mem.resolved[i] = None /\ Continue("clear_file", holder.mem) /\ res' = res
      \/ /\ holder.mem.resolved[i] # None /\ Save("clear_file", j)
         /\ res' = [res EXCEPT ![i] = holder.mem.resolved[i].saved]
      \/ /\ holder.mem.resolved[i] # None /\ Continue("clear_file", holder.mem)
         /\ res' \in PartlyRestored(i, holder.mem.resolved[i].saved)
  <2>1. [holder.mem EXCEPT !.resolved[i] = None] = j
    OBVIOUS
  <2> QED BY <2>1 DEF ClearLink
<1>4. r \in [Ifaces -> Resolved \cup {None}]
  BY <1>2 DEF Journal
<1> HIDE DEF r
<1>5. j \in Journal /\ j.resolved = r /\ j.file = holder.mem.file /\ j.owners = holder.mem.owners
  BY <1>2, <1>4 DEF Journal
<1> HIDE DEF j
<1>6. CASE holder.mem.resolved[i] # None /\ Save("clear_file", j)
           /\ res' = [res EXCEPT ![i] = holder.mem.resolved[i].saved]
  <2>1. /\ holder' \in Operation /\ SameCall /\ holder'.at = "clear_file" /\ holder'.mem = j
        /\ holder'.todo = <<"save">>
    BY <1>2, <1>5, <1>6, SaveIs
  <2> QED BY <1>1, <1>5, <1>6, <2>1 DEF r
<1> QED BY <1>1, <1>2, <1>3, <1>6, ContinueIs

(* After the pruning: verify goes on with the servers it finds itself to own the file
   with. *)
LEMMA BeginIs ==
    ASSUME TypeOK, Begin
    PROVE  /\ holder # None /\ holder.at = "links" /\ holder.todo = <<>> /\ holder.stale = {}
           /\ \/ holder' = None
              \/ /\ holder' \in Operation /\ holder'.iface = holder.iface /\ holder'.op = holder.op
                 /\ holder'.mem = holder.mem /\ holder'.todo = <<>> /\ holder'.stale = {}
                 /\ \/ holder'.at = "op" /\ holder'.dns = holder.dns
                    \/ holder'.at = "set_file" /\ holder.op = "set" /\ holder'.dns = holder.dns
                    \/ /\ holder'.at = "set_file" /\ holder.op = "verify"
                       /\ \E k \in DOMAIN holder.mem.owners :
                             /\ holder.mem.owners[k].iface = holder.iface
                             /\ holder'.dns = holder.mem.owners[k].dns
<1>1. holder # None /\ holder.at = "links" /\ holder.todo = <<>> /\ holder.stale = {}
  BY DEF Begin, At
<1>2. holder \in Operation /\ holder.mem \in Journal /\ "op" \in Stages /\ "set_file" \in Stages
  BY <1>1, HolderTyped DEF Stages
<1>3. CASE Continue("op", holder.mem)
  BY <1>1, <1>2, <1>3, ContinueIs DEF SameCall
<1>4. CASE holder.op = "set" /\ Continue("set_file", holder.mem)
  BY <1>1, <1>2, <1>4, ContinueIs DEF SameCall
<1>5. ASSUME NEW k \in DOMAIN holder.mem.owners, holder.mem.owners[k].iface = holder.iface,
             holder.op = "verify",
             holder' = [holder EXCEPT !.at = "set_file", !.dns = holder.mem.owners[k].dns]
      PROVE  /\ holder' \in Operation /\ holder'.iface = holder.iface /\ holder'.op = holder.op
             /\ holder'.mem = holder.mem /\ holder'.todo = <<>> /\ holder'.stale = {} /\ holder'.at = "set_file"
             /\ holder'.dns = holder.mem.owners[k].dns
  <2>1. holder.mem.owners \in Seq(Owner)
    BY <1>2 DEF Journal
  <2>2. holder.mem.owners[k] \in Owner
    BY <1>5, <2>1
  <2>3. holder.mem.owners[k].dns \in Dns
    BY <2>2 DEF Owner
  <2> QED BY <1>1, <1>2, <1>5, <2>3 DEF Operation
<1>6. \/ holder' = None \/ Continue("op", holder.mem)
      \/ holder.op = "set" /\ Continue("set_file", holder.mem)
      \/ /\ holder.op = "verify"
         /\ \E k \in DOMAIN holder.mem.owners :
               /\ holder.mem.owners[k].iface = holder.iface
               /\ holder' = [holder EXCEPT !.at = "set_file", !.dns = holder.mem.owners[k].dns]
  BY DEF Begin, Return
<1> QED BY <1>1, <1>3, <1>4, <1>5, <1>6

(* The settings of the link of the caller (set_mode_with). *)
LEMMA SetLinkIs ==
    ASSUME TypeOK, SetLink
    PROVE  /\ holder # None /\ holder.at = "set_resolved" /\ holder.todo = <<>>
           /\ \/ holder' = None
              \/ /\ holder' \in Operation /\ SameCall /\ holder'.at = "set_file"
                 /\ holder'.mem = holder.mem /\ holder'.todo = <<>>
           /\ res' \in {[res EXCEPT ![holder.iface] = [dns |-> "ours", domain |-> "ours"]],
                        res, [res EXCEPT ![holder.iface].dns = "ours"]}
<1>1. holder # None /\ holder.at = "set_resolved" /\ holder.todo = <<>>
  BY DEF SetLink, At
<1>2. holder \in Operation /\ holder.mem \in Journal /\ "set_file" \in Stages
  BY <1>1, HolderTyped DEF Stages
<1>3. /\ holder' = None \/ Continue("set_file", holder.mem)
      /\ res' \in {[res EXCEPT ![holder.iface] = [dns |-> "ours", domain |-> "ours"]],
                   res, [res EXCEPT ![holder.iface].dns = "ours"]}
  BY DEF SetLink, Return
<1> QED BY <1>1, <1>2, <1>3, ContinueIs

(* The effects. *)
LEMMA PendingIs ==
    ASSUME TypeOK, NEW e, Pending(e)
    PROVE  /\ holder # None /\ holder \in Operation /\ holder.todo # <<>> /\ Head(holder.todo) = e
           /\ Tail(holder.todo) \in Seq(Effects)
<1>1. holder # None /\ holder.todo # <<>> /\ Head(holder.todo) = e
  BY DEF Pending
<1>2. holder \in Operation /\ holder.todo \in Seq(Effects)
  BY <1>1, HolderTyped
<1> QED BY <1>1, <1>2

SameOperation == SameCall /\ holder'.at = holder.at /\ holder'.mem = holder.mem
                 /\ holder'.target = holder.target /\ holder'.body = holder.body

(* An effect that succeeds. *)
LEMMA PerformIs ==
    ASSUME TypeOK, Perform
    PROVE  /\ holder # None /\ holder \in Operation /\ holder' \in Operation /\ SameOperation
           /\ holder.todo # <<>> /\ holder'.todo = Tail(holder.todo)
           /\ \/ Saved /\ Head(holder.todo) = "save"
              \/ Written /\ Head(holder.todo) = "write"
<1>1. /\ (Saved /\ Pending("save")) \/ (Written /\ Pending("write"))
      /\ holder' = [holder EXCEPT !.todo = Tail(@)]
  BY DEF Perform, Saved, Written
<1>2. /\ holder # None /\ holder \in Operation /\ holder.todo # <<>>
      /\ Tail(holder.todo) \in Seq(Effects)
  BY <1>1, PendingIs
<1>3. holder' \in Operation /\ SameOperation /\ holder'.todo = Tail(holder.todo)
  BY <1>1, <1>2 DEF Operation, Effects, SameOperation, SameCall
<1> QED BY <1>1, <1>2, <1>3, PendingIs

(* An effect that fails, before or after it took place. *)
LEMMA FailIs ==
    ASSUME TypeOK, Fail
    PROVE  /\ holder # None /\ holder \in Operation /\ holder.todo # <<>>
           /\ \/ Saved /\ Head(holder.todo) = "save"
              \/ Written /\ Head(holder.todo) = "write"
              \/ UNCHANGED <<file, res, journal, slipped, host>>
           /\ \/ holder' = None
              \/ /\ holder.at = "clear_file" /\ holder' \in Operation /\ SameOperation
                 /\ holder'.todo = <<>>
<1>1. \/ Saved /\ Pending("save")
      \/ Written /\ Pending("write")
      \/ (Pending("save") \/ Pending("write")) /\ UNCHANGED <<file, res, journal, slipped, host>>
  BY DEF Fail, Saved, Written
<1>2. holder # None /\ holder \in Operation /\ holder.todo # <<>>
  BY <1>1, PendingIs
<1>3. CASE holder.at = "clear_file"
  <2>1. holder' = [holder EXCEPT !.todo = <<>>] /\ <<>> \in Seq(Effects)
    BY <1>3 DEF Fail
  <2>2. holder' \in Operation /\ SameOperation /\ holder'.todo = <<>>
    BY <1>2, <2>1 DEF Operation, Effects, SameOperation, SameCall
  <2> QED BY <1>1, <1>2, <1>3, <2>2, PendingIs
<1>4. CASE holder.at # "clear_file"
  BY <1>1, <1>2, <1>4, PendingIs DEF Fail
<1> QED BY <1>3, <1>4

(* The decisions that end an operation. *)
LEMMA CloseIs ==
    ASSUME RefuseFile \/ KeepFile \/ Close
    PROVE  holder # None /\ holder.todo = <<>> /\ holder' = None
           /\ UNCHANGED <<file, res, journal, still>>
BY DEF RefuseFile, KeepFile, Close, At, Return

(* An operation begins with the journal as it is (Locked::open). *)
LEMMA OpenIs ==
    ASSUME TypeOK, NEW i \in Ifaces, NEW op \in {"set", "verify", "clear"}, NEW dns \in Dns \cup {None},
           Open(i, op, dns)
    PROVE  /\ running[i] # 0 /\ holder' \in Operation /\ holder' # None
           /\ holder'.iface = i /\ holder'.op = op /\ holder'.dns = dns /\ holder'.at = "prune"
           /\ holder'.mem = journal /\ holder'.todo = <<>> /\ holder'.stale = {}
           /\ UNCHANGED <<file, res, journal, still>>
<1>1. <<>> \in Seq({"save", "write"}) /\ {} \in SUBSET Ifaces /\ Absent \in Contents
  BY DEF Contents
<1>2. /\ running[i] # 0 /\ UNCHANGED <<file, res, journal, still>>
      /\ holder' = [iface |-> i, op |-> op, dns |-> dns, at |-> "prune", mem |-> journal,
                    todo |-> <<>>, target |-> link, body |-> Absent, stale |-> {}]
  BY DEF Open
<1>3. journal \in Journal /\ link \in Targets
  BY DEF TypeOK
<1>4. holder' \in Operation
  BY <1>1, <1>2, <1>3 DEF Operation
<1>5. holder' # None
  BY <1>4, NoneAssumption
<1> QED BY <1>2, <1>4, <1>5

(* Everything Next can be. *)
LEMMA NextIs ==
    ASSUME [Next]_vars
    PROVE  \/ \E i \in Ifaces, op \in {"set", "verify", "clear"}, dns \in Dns \cup {None} :
                 Open(i, op, dns) /\ (op = "set" => dns \in Dns)
           \/ PruneOwners \/ PruneFile \/ PruneLinks \/ \E i \in Ifaces : PruneLink(i)
           \/ Begin \/ QueryLink \/ SetLink \/ ReleaseFile \/ RepairFile \/ TakeFile
           \/ (RefuseFile \/ KeepFile \/ Close)
           \/ ClearLink \/ ClearFile \/ Perform \/ Fail
           \/ \E i \in Ifaces : Start(i)
           \/ \E i \in Ifaces : Stop(i)
           \/ Reboot
           \/ \E c \in Foreign : ForeignWrite(c)
           \/ \E t \in Targets : Retarget(t)
           \/ UNCHANGED vars
BY Zenon DEF Next, Decide, SetFile

(* The decisions leave the host alone. *)
LEMMA DecideIs ==
    ASSUME \/ PruneOwners \/ PruneFile \/ PruneLinks \/ \E i \in Ifaces : PruneLink(i)
           \/ Begin \/ QueryLink \/ SetLink \/ ReleaseFile \/ RepairFile \/ TakeFile
           \/ (RefuseFile \/ KeepFile \/ Close) \/ ClearLink \/ ClearFile
    PROVE  UNCHANGED <<file, journal, slipped, host>>
BY DEF PruneOwners, PruneFile, PruneLinks, PruneLink, Begin, QueryLink, SetLink, ReleaseFile,
       RepairFile, TakeFile, RefuseFile, KeepFile, Close, ClearLink, ClearFile, still

(* The types, at the start. *)
LEMMA TypeStart ==
    ASSUME Init
    PROVE  TypeOK /\ CallOK
<1>1. <<>> \in Seq(Owner) /\ [i \in Ifaces |-> None] \in [Ifaces -> Resolved \cup {None}]
  OBVIOUS
<1>2. journal \in Journal
  BY <1>1 DEF Init, Journal
<1>3. file \in [Targets -> Contents]
  BY DEF Init, Contents
<1>4. res \in [Ifaces -> Setting]
  BY DEF Init, Setting, Prior
<1>5. /\ running \in [Ifaces -> 0 .. procs]
      /\ procs \in 0 .. MaxProcs /\ boot \in 0 .. MaxBoots /\ external \in 0 .. MaxExternal
      /\ faults \in 0 .. MaxFaults
  BY ConstantsAssumption DEF Init
<1>6. link \in Targets /\ holder = None /\ moved \in BOOLEAN /\ slipped \in BOOLEAN
  BY DEF Init
<1> QED BY <1>2, <1>3, <1>4, <1>5, <1>6 DEF TypeOK, CallOK

(* Resolved has only settings of its own or ours. *)
LEMMA SettingsTyped ==
    ASSUME TypeOK, NEW i \in Ifaces, NEW s \in Setting
    PROVE  /\ [res EXCEPT ![i] = s] \in [Ifaces -> Setting]
           /\ \A r \in PartlyRestored(i, s) : r \in [Ifaces -> Setting]
           /\ [res EXCEPT ![i].dns = "ours"] \in [Ifaces -> Setting]
<1>1. res \in [Ifaces -> Setting]
  BY DEF TypeOK
<1>2. \A d \in {"prior", "ours"} : [res[i] EXCEPT !.dns = d] \in Setting
                                   /\ [res[i] EXCEPT !.domain = d] \in Setting
  BY <1>1 DEF Setting
<1>3. s.dns \in {"prior", "ours"} /\ s.domain \in {"prior", "ours"}
  BY DEF Setting
<1> QED BY <1>1, <1>2, <1>3 DEF PartlyRestored

(* A decision keeps the types if it keeps those of the call and of the links. *)
LEMMA DecideTyped ==
    ASSUME Typed, UNCHANGED <<file, journal, slipped, host>>,
           holder' \in Operation \cup {None}, CallOK', res' \in [Ifaces -> Setting],
           faults' \in 0 .. MaxFaults
    PROVE  Typed'
<1>1. TypeOK'
  BY DEF Typed, TypeOK, host
<1> QED BY <1>1 DEF Typed, Retains

(* Every step keeps the types. *)
LEMMA TypeStep ==
    ASSUME Typed, [Next]_vars
    PROVE  Typed'
<1> USE DEF Typed
<1>0. Retains'
  BY DEF Retains
<1>1. ASSUME NEW i \in Ifaces, NEW op \in {"set", "verify", "clear"}, NEW dns \in Dns \cup {None},
             Open(i, op, dns), op = "set" => dns \in Dns
      PROVE  Typed'
  <2>1. CallOK'
    BY <1>1, OpenIs DEF CallOK
  <2> QED BY <1>1, <2>1, OpenIs, DecideTyped DEF still, TypeOK
<1>2. CASE PruneOwners
  <2>1. CallOK'
    BY <1>2, PruneOwnersIs DEF CallOK, SameCall
  <2> QED BY <1>2, <2>1, PruneOwnersIs, DecideTyped DEF PruneOwners, still, TypeOK
<1>3. CASE PruneFile
  <2>1. CallOK'
    BY <1>3, PruneFileIs DEF CallOK, SameCall
  <2> QED BY <1>3, <2>1, PruneFileIs, DecideTyped DEF PruneFile, still, TypeOK
<1>4. CASE PruneLinks
  <2>1. CallOK'
    BY <1>4, PruneLinksIs DEF CallOK
  <2> QED BY <1>4, <2>1, PruneLinksIs, DecideTyped DEF PruneLinks, still, TypeOK
<1>5. ASSUME NEW i \in Ifaces, PruneLink(i) PROVE Typed'
  <2>1. CallOK'
    <3>1. holder # None /\ holder.mem.resolved \in [Ifaces -> Resolved \cup {None}]
          /\ holder.stale \subseteq Ifaces
      BY <1>5, PruneLinkIs, HolderTyped DEF Operation, Journal
    <3>2. \A k \in holder.stale \ {i} : [holder.mem.resolved EXCEPT ![i] = None][k] # None
      BY <3>1 DEF CallOK
    <3> QED BY <1>5, <3>2, PruneLinkIs DEF CallOK
  <2>2. holder' \in Operation \cup {None}
    BY <1>5, PruneLinkIs
  <2>3. res' \in [Ifaces -> Setting]
    <3> DEFINE s == holder.mem.resolved[i]
    <3>1. holder \in Operation /\ i \in holder.stale /\ s # None
      BY <1>5, PruneLinkIs, HolderTyped DEF CallOK
    <3>2. s \in Resolved
      BY <3>1 DEF Operation, Journal
    <3>3. s.saved \in Setting
      BY <3>2 DEF Resolved
    <3>4. \/ res' = [res EXCEPT ![i] = s.saved] \/ res' = res
          \/ res' \in PartlyRestored(i, s.saved)
      BY <1>5 DEF PruneLink
    <3> HIDE DEF s
    <3> QED BY <3>3, <3>4, SettingsTyped DEF TypeOK
  <2>4. faults' \in 0 .. MaxFaults
    BY <1>5, ConstantsAssumption DEF PruneLink, TypeOK
  <2> QED BY <1>5, <2>1, <2>2, <2>3, <2>4, DecideTyped DEF PruneLink
<1>6. CASE Begin
  <2>1. CallOK'
    <3>1. holder # None => /\ holder.mem \in Journal
                           /\ \A k \in DOMAIN holder.mem.owners : holder.mem.owners[k].dns \in Dns
      <4>1. holder # None => holder.mem.owners \in Seq(Owner) /\ holder.mem \in Journal
        BY HolderTyped DEF Journal
      <4>2. holder # None => \A k \in DOMAIN holder.mem.owners : holder.mem.owners[k] \in Owner
        BY <4>1
      <4> QED BY <4>1, <4>2 DEF Owner
    <3> QED BY <1>6, <3>1, BeginIs DEF CallOK
  <2> QED BY <1>6, <2>1, BeginIs, DecideTyped DEF Begin, still, TypeOK
<1>7. CASE QueryLink
  <2>1. CallOK'
    BY <1>7, QueryLinkIs DEF CallOK, SameCall
  <2> QED BY <1>7, <2>1, QueryLinkIs, DecideTyped DEF QueryLink, still, TypeOK
<1>8. CASE SetLink
  <2>1. CallOK'
    BY <1>8, SetLinkIs DEF CallOK, SameCall
  <2>2. res' \in [Ifaces -> Setting]
    <3>1. holder.iface \in Ifaces /\ [dns |-> "ours", domain |-> "ours"] \in Setting
      BY <1>8, SetLinkIs, HolderTyped DEF Setting
    <3> QED BY <1>8, <3>1, SetLinkIs, SettingsTyped DEF TypeOK
  <2> QED BY <1>8, <2>1, <2>2, SetLinkIs, DecideTyped DEF SetLink, still, TypeOK
<1>9. CASE ReleaseFile
  <2>1. CallOK'
    BY <1>9, ReleaseFileIs DEF CallOK, SameCall
  <2> QED BY <1>9, <2>1, ReleaseFileIs, DecideTyped DEF ReleaseFile, still, TypeOK
<1>10. CASE RepairFile \/ TakeFile
  <2>1. CallOK'
    BY <1>10, TakeFileIs DEF CallOK, SameCall
  <2> QED BY <1>10, <2>1, TakeFileIs, DecideTyped DEF RepairFile, TakeFile, still, TypeOK
<1>11. CASE RefuseFile \/ KeepFile \/ Close
  <2>1. CallOK'
    BY <1>11, CloseIs DEF CallOK
  <2> QED BY <1>11, <2>1, CloseIs, DecideTyped DEF still, TypeOK
<1>12. CASE ClearLink
  <2>1. CallOK'
    BY <1>12, ClearLinkIs DEF CallOK, SameCall
  <2>2. res' \in [Ifaces -> Setting]
    <3> DEFINE s == holder.mem.resolved[holder.iface]
    <3>1. s \in Resolved \cup {None} /\ holder.iface \in Ifaces
      BY <1>12, ClearLinkIs, HolderTyped DEF Journal
    <3>2. s # None => s.saved \in Setting
      BY <3>1 DEF Resolved
    <3>3. \/ res' = res
          \/ s # None /\ res' = [res EXCEPT ![holder.iface] = s.saved]
          \/ s # None /\ res' \in PartlyRestored(holder.iface, s.saved)
      BY <1>12, ClearLinkIs
    <3> HIDE DEF s
    <3> QED BY <3>1, <3>2, <3>3, SettingsTyped DEF TypeOK
  <2> QED BY <1>12, <2>1, <2>2, ClearLinkIs, DecideTyped DEF ClearLink, still, TypeOK
<1>13. CASE ClearFile
  <2>1. CallOK'
    BY <1>13, ClearFileIs DEF CallOK, SameCall
  <2> QED BY <1>13, <2>1, ClearFileIs, DecideTyped DEF ClearFile, still, TypeOK
<1>14. ASSUME Saved \/ Written \/ UNCHANGED <<file, res, journal, slipped, host>>,
              holder # None, faults' \in 0 .. MaxFaults, holder' \in Operation \cup {None}, CallOK'
       PROVE  Typed'
  <2>1. holder.mem \in Journal /\ holder.target \in Targets /\ holder.body \in Contents
    BY <1>14, HolderTyped
  <2>2. file' \in [Targets -> Contents] /\ journal' \in Journal /\ slipped' \in BOOLEAN
        /\ res' = res /\ UNCHANGED host
    BY <1>14, <2>1 DEF Saved, Written, TypeOK
  <2> QED BY <1>0, <1>14, <2>2 DEF TypeOK, host
<1>15. CASE Perform
  <2>1. CallOK'
    BY <1>15, PerformIs DEF CallOK, SameOperation, SameCall
  <2> QED BY <1>14, <1>15, <2>1, PerformIs DEF Perform, TypeOK
<1>16. CASE Fail
  <2>1. CallOK'
    BY <1>16, FailIs DEF CallOK, SameOperation, SameCall
  <2>2. faults' \in 0 .. MaxFaults
    BY <1>16, ConstantsAssumption DEF Fail, TypeOK
  <2> QED BY <1>14, <1>16, <2>1, <2>2, FailIs
<1>17. ASSUME NEW i \in Ifaces, Start(i) PROVE Typed'
  <2>1. CallOK'
    BY <1>17 DEF Start, CallOK
  <2>2. procs' \in 0 .. MaxProcs /\ running' \in [Ifaces -> 0 .. procs']
    BY <1>17, ConstantsAssumption DEF Start, TypeOK
  <2> QED BY <1>0, <1>17, <2>1, <2>2 DEF Start, TypeOK
<1>18. ASSUME NEW i \in Ifaces, Stop(i) PROVE Typed'
  <2>1. CallOK'
    BY <1>18 DEF Stop, CallOK
  <2>2. running' \in [Ifaces -> 0 .. procs'] /\ res' \in [Ifaces -> Setting]
    BY <1>18, ConstantsAssumption DEF Stop, TypeOK, Setting, Prior
  <2> QED BY <1>0, <1>18, <2>1, <2>2 DEF Stop, TypeOK
<1>19. CASE Reboot
  <2>1. CallOK'
    BY <1>19 DEF Reboot, CallOK
  <2>2. running' \in [Ifaces -> 0 .. procs'] /\ res' \in [Ifaces -> Setting]
        /\ boot' \in 0 .. MaxBoots
    BY <1>19, ConstantsAssumption DEF Reboot, TypeOK, Setting, Prior
  <2>3. file' \in [Targets -> Contents]
    BY <1>19 DEF Reboot, TypeOK, Contents
  <2> QED BY <1>0, <1>19, <2>1, <2>2, <2>3 DEF Reboot, TypeOK
<1>20. ASSUME NEW c \in Foreign, ForeignWrite(c) PROVE Typed'
  <2>1. CallOK'
    BY <1>20 DEF ForeignWrite, CallOK
  <2>2. external' \in 0 .. MaxExternal /\ file' \in [Targets -> Contents]
    BY <1>20, ConstantsAssumption DEF ForeignWrite, TypeOK, Contents
  <2> QED BY <1>0, <1>20, <2>1, <2>2 DEF ForeignWrite, TypeOK
<1>21. ASSUME NEW t \in Targets, Retarget(t) PROVE Typed'
  <2>1. CallOK'
    BY <1>21 DEF Retarget, CallOK
  <2>2. external' \in 0 .. MaxExternal
    BY <1>21, ConstantsAssumption DEF Retarget, TypeOK
  <2> QED BY <1>0, <1>21, <2>1, <2>2 DEF Retarget, TypeOK
<1>22. CASE UNCHANGED vars
  BY <1>0, <1>22 DEF vars, TypeOK, CallOK
<1> QED BY NextIs, <1>1, <1>2, <1>3, <1>4, <1>5, <1>6, <1>7, <1>8, <1>9, <1>10, <1>11, <1>12,
           <1>13, <1>15, <1>16, <1>17, <1>18, <1>19, <1>20, <1>21, <1>22

-----------------------------------------------------------------------------
(* The journal and its copy. *)

(* The operation that holds the lock is that of a running process.  Its copy of the journal
   is the journal itself whenever it decides, except once clear has dropped its link and
   after the last save. *)
Holding ==
    holder # None =>
        /\ running[holder.iface] # 0
        /\ \/ holder.todo \in {<<>>, <<"save">>} \/ holder.todo = <<"write", "save">>
           \/ holder.at = "done" /\ holder.todo \in {<<"save", "write">>, <<"write">>}
        /\ holder.todo = <<>> /\ holder.at \notin {"clear_file", "done"} => holder.mem = journal
        /\ holder.todo = <<"write">> => holder.mem = journal
        /\ holder.at = "prune" => holder.todo = <<>>
        /\ holder.at = "clear_file" =>
              /\ holder.todo # <<"write", "save">>
              /\ holder.mem.file = journal.file /\ holder.mem.owners = journal.owners

(* What is left of a list of effects. *)
LEMMA Tails ==
    /\ Tail(<<"save">>) = <<>> /\ Tail(<<"write">>) = <<>>
    /\ Tail(<<"write", "save">>) = <<"save">> /\ Tail(<<"save", "write">>) = <<"write">>
    /\ Head(<<"save">>) = "save" /\ Head(<<"write">>) = "write"
    /\ Head(<<"write", "save">>) = "write" /\ Head(<<"save", "write">>) = "save"
    /\ <<"save">> # <<>> /\ <<"write">> # <<>> /\ <<"write", "save">> # <<>>
    /\ <<"save", "write">> # <<>> /\ <<"save">> # <<"write">>
    /\ <<"write", "save">> # <<"save", "write">>
    /\ <<"write", "save">> \notin {<<"save">>, <<"write">>}
    /\ <<"save", "write">> \notin {<<"save">>, <<"write">>}
OBVIOUS

(* Every step keeps the operation and its copy of the journal in step. *)
LEMMA HoldStep ==
    ASSUME Typed, Holding, [Next]_vars
    PROVE  Holding'
<1> USE DEF Typed
<1>1. ASSUME NEW i \in Ifaces, NEW op \in {"set", "verify", "clear"}, NEW dns \in Dns \cup {None},
             Open(i, op, dns)
      PROVE  Holding'
  BY <1>1, OpenIs, Tails DEF Holding, still, host
<1>2. CASE PruneOwners
  BY <1>2, PruneOwnersIs, DecideIs, Tails DEF Holding, SameCall, host
<1>3. CASE PruneFile
  BY <1>3, PruneFileIs, DecideIs, Tails DEF Holding, SameCall, FileRestored, host
<1>4. CASE PruneLinks
  BY <1>4, PruneLinksIs, DecideIs, Tails DEF Holding, host
<1>5. ASSUME NEW i \in Ifaces, PruneLink(i) PROVE Holding'
  BY <1>5, PruneLinkIs, DecideIs, Tails DEF Holding, host
<1>6. CASE Begin
  BY <1>6, BeginIs, DecideIs, Tails DEF Holding, host
<1>7. CASE QueryLink
  BY <1>7, QueryLinkIs, DecideIs, Tails DEF Holding, SameCall, host
<1>8. CASE SetLink
  BY <1>8, SetLinkIs, DecideIs, Tails DEF Holding, SameCall, host
<1>9. CASE ReleaseFile
  BY <1>9, ReleaseFileIs, DecideIs, Tails DEF Holding, SameCall, host
<1>10. CASE RepairFile \/ TakeFile
  BY <1>10, TakeFileIs, DecideIs, Tails DEF Holding, SameCall, host
<1>11. CASE RefuseFile \/ KeepFile \/ Close
  BY <1>11, CloseIs DEF Holding
<1>12. CASE ClearLink
  BY <1>12, ClearLinkIs, DecideIs, Tails DEF Holding, SameCall, host
<1>13. CASE ClearFile
  BY <1>13, ClearFileIs, DecideIs, Tails DEF Holding, SameCall, FileRestored, host
<1>14. CASE Perform
  <2>1. /\ holder # None /\ SameOperation /\ holder'.todo = Tail(holder.todo) /\ holder.todo # <<>>
        /\ \/ Saved /\ Head(holder.todo) = "save"
           \/ Written /\ Head(holder.todo) = "write"
    BY <1>14, PerformIs
  <2>2. UNCHANGED host /\ (journal' = journal \/ (Head(holder.todo) = "save" /\ journal' = holder.mem))
    BY <2>1 DEF Saved, Written
  <2>3. CASE holder.todo = <<"save">>
    BY <2>1, <2>2, <2>3, Tails DEF Holding, SameOperation, SameCall, host, Saved, Written
  <2>4. CASE holder.todo = <<"write", "save">>
    BY <2>1, <2>2, <2>4, Tails DEF Holding, SameOperation, SameCall, host
  <2>5. CASE holder.at = "done" /\ holder.todo \in {<<"save", "write">>, <<"write">>}
    BY <2>1, <2>2, <2>5, Tails DEF Holding, SameOperation, SameCall, host, Saved, Written
  <2> QED BY <2>1, <2>3, <2>4, <2>5 DEF Holding
<1>15. CASE Fail
  <2>1. UNCHANGED host /\ journal' \in {journal, holder.mem}
    BY <1>15, FailIs DEF Saved, Written
  <2> QED BY <1>15, <2>1, FailIs, Tails DEF Holding, SameOperation, SameCall, host
<1>16. ASSUME NEW i \in Ifaces, Start(i) PROVE Holding'
  BY <1>16, HolderTyped DEF Start, Holding, TypeOK
<1>17. ASSUME NEW i \in Ifaces, Stop(i) PROVE Holding'
  BY <1>17, HolderTyped DEF Stop, Holding, TypeOK
<1>18. CASE Reboot
  BY <1>18 DEF Reboot, Holding
<1>19. ASSUME NEW c \in Foreign, ForeignWrite(c) PROVE Holding'
  BY <1>19 DEF ForeignWrite, Holding
<1>20. ASSUME NEW t \in Targets, Retarget(t) PROVE Holding'
  BY <1>20 DEF Retarget, Holding
<1>21. CASE UNCHANGED vars
  BY <1>21 DEF vars, Holding
<1> QED BY NextIs, <1>1, <1>2, <1>3, <1>4, <1>5, <1>6, <1>7, <1>8, <1>9, <1>10, <1>11, <1>12,
           <1>13, <1>14, <1>15, <1>16, <1>17, <1>18, <1>19, <1>20, <1>21

=============================================================================
