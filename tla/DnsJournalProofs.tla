-------------------------- MODULE DnsJournalProofs ---------------------------
(***************************************************************************)
(* What DnsJournal promises, for any interfaces, servers, files and bounds: *)
(* the theorems, and the order of the owners.                              *)
(***************************************************************************)
EXTENDS DnsStateProofs, FiniteSetTheorems, WellFoundedInduction

-----------------------------------------------------------------------------
(* Vec::retain. *)

(* A set of natural numbers that is not empty has a least element: what induction over
   sequences and sets rests on here. *)
LEMMA LeastNat ==
    ASSUME NEW S, S \subseteq Nat, S # {}
    PROVE  \E m \in S : \A k \in S : m <= k
<1> DEFINE R == OpToRel(<, Nat)
<1>1. PICK m \in S : \A k \in S : ~ (<<k, m>> \in R)
  BY NatLessThanWellFounded, WFMin, Zenon
<1>2. \A k \in Nat, j \in Nat : <<k, j>> \in R <=> k < j
  BY DEF OpToRel
<1> HIDE DEF R
<1>3. \A k \in S : ~(k < m)
  BY <1>1, <1>2
<1> QED BY <1>3

Increasing(f, n) == \A a, b \in 1 .. n : a < b => f[a] < f[b]

(* The positions kept can be listed in their order: by the least m for which those up to
   m cannot. *)
LEMMA Listed ==
    ASSUME NEW m \in Nat, NEW K \in SUBSET (1 .. m)
    PROVE  /\ Cardinality(K) \in Nat
           /\ \E f \in [1 .. Cardinality(K) -> K] : Increasing(f, Cardinality(K))
<1> DEFINE Lists(L) == \E f \in [1 .. Cardinality(L) -> L] : Increasing(f, Cardinality(L))
           Bad == {k \in Nat : \E L \in SUBSET (1 .. k) : ~Lists(L)}
<1>1. ASSUME NEW k \in Nat, NEW L \in SUBSET (1 .. k)
      PROVE  IsFiniteSet(L) /\ Cardinality(L) \in Nat
  <2>1. IsFiniteSet(1 .. k)
    BY FS_Interval
  <2>2. IsFiniteSet(L)
    BY <2>1, FS_Subset
  <2> QED BY <2>2, FS_CardinalityType
<1>2. ASSUME NEW k \in Bad PROVE FALSE
  <2>1. PICK b \in Bad : \A j \in Bad : b <= j
    <3> HIDE DEF Lists
    <3> QED BY <1>2, LeastNat
  <2>2. PICK L \in SUBSET (1 .. b) : ~Lists(L)
    OBVIOUS
  <2>3. CASE b = 0
    <3>1. L = {}
      BY <2>3
    <3>2. Cardinality(L) = 0
      BY <3>1, FS_EmptySet
    <3>3. [a \in 1 .. 0 |-> a] \in [1 .. 0 -> L] /\ Increasing([a \in 1 .. 0 |-> a], 0)
      BY DEF Increasing
    <3> QED BY <2>2, <3>2, <3>3
  <2>4. CASE b # 0 /\ b \notin L
    <3>1. b - 1 \in Nat /\ b - 1 \notin Bad /\ L \in SUBSET (1 .. b - 1)
      <4>1. b \in Nat
        OBVIOUS
      <4> HIDE DEF Bad
      <4> QED BY <2>1, <2>4, <4>1
    <3> QED BY <2>2, <3>1
  <2>5. CASE b # 0 /\ b \in L
    <3> DEFINE R == L \ {b}
               n == Cardinality(R)
    <3>1. b - 1 \in Nat /\ b - 1 \notin Bad /\ R \in SUBSET (1 .. b - 1)
      <4>1. b \in Nat
        OBVIOUS
      <4> HIDE DEF Bad
      <4> QED BY <2>1, <2>5, <4>1
    <3>2. PICK f \in [1 .. n -> R] : Increasing(f, n)
      BY <3>1
    <3>3. n \in Nat /\ Cardinality(L) = n + 1
      <4>1. IsFiniteSet(R) /\ n \in Nat
        BY <1>1, <3>1
      <4>2. Cardinality(R \cup {b}) = n + 1
        BY <4>1, FS_AddElement
      <4>3. R \cup {b} = L
        BY <2>5
      <4> QED BY <4>1, <4>2, <4>3
    <3> DEFINE g == [a \in 1 .. n + 1 |-> IF a = n + 1 THEN b ELSE f[a]]
    <3> HIDE DEF n
    <3>4. \A a \in 1 .. n + 1 : a # n + 1 => a \in 1 .. n /\ f[a] \in R
      BY <3>2, <3>3
    <3>5. g \in [1 .. n + 1 -> L]
      BY <2>5, <3>4
    <3>6. Increasing(g, n + 1)
      <4> SUFFICES ASSUME NEW a \in 1 .. n + 1, NEW c \in 1 .. n + 1, a < c PROVE g[a] < g[c]
        BY DEF Increasing
      <4>1. a \in 1 .. n /\ f[a] \in R
        BY <3>3, <3>4
      <4>2. CASE c = n + 1
        <5>1. g[a] = f[a] /\ g[c] = b
          BY <3>3, <4>1, <4>2
        <5>2. f[a] \in 1 .. b - 1 /\ b \in Nat
          BY <3>1, <4>1
        <5> QED BY <5>1, <5>2
      <4>3. CASE c # n + 1
        <5>1. c \in 1 .. n /\ g[a] = f[a] /\ g[c] = f[c]
          BY <3>3, <3>4, <4>1, <4>3
        <5> QED BY <3>2, <4>1, <5>1 DEF Increasing
      <4> QED BY <4>2, <4>3
    <3> QED BY <2>2, <3>3, <3>5, <3>6
  <2> QED BY <2>3, <2>4, <2>5
<1>3. Lists(K)
  BY <1>2
<1> QED BY <1>1, <1>3

(* What is retained is found, in the same order, at positions of the sequence. *)
LEMMA Retained ==
    ASSUME NEW S, NEW s \in Seq(S), NEW K \in SUBSET DOMAIN s
    PROVE  /\ Retain(s, K) \in Seq(S)
           /\ \E f \in [DOMAIN Retain(s, K) -> K] :
                 /\ \A a \in DOMAIN Retain(s, K) : Retain(s, K)[a] = s[f[a]]
                 /\ \A a, b \in DOMAIN Retain(s, K) : a < b => f[a] < f[b]
<1> DEFINE n == Cardinality(K)
           f == CHOOSE g \in [1 .. n -> K] : \A a, b \in 1 .. n : a < b => g[a] < g[b]
<1>1. Len(s) \in Nat /\ DOMAIN s = 1 .. Len(s)
  OBVIOUS
<1>2. n \in Nat /\ \E g \in [1 .. n -> K] : \A a, b \in 1 .. n : a < b => g[a] < g[b]
  BY <1>1, Listed DEF Increasing
<1>3. f \in [1 .. n -> K] /\ \A a, b \in 1 .. n : a < b => f[a] < f[b]
  BY <1>2
<1>4. Retain(s, K) = [a \in 1 .. n |-> s[f[a]]]
  BY DEF Retain
<1> HIDE DEF n, f
<1>5. \A a \in 1 .. n : s[f[a]] \in S
  BY <1>1, <1>3
<1>6. Retain(s, K) \in Seq(S) /\ DOMAIN Retain(s, K) = 1 .. n
  BY <1>2, <1>4, <1>5
<1> QED BY <1>3, <1>4, <1>6

-----------------------------------------------------------------------------
(* The order of the owners. *)

BelowIn(o, i, k) == \E a, b \in DOMAIN o : a < b /\ o[a].iface = i /\ o[b].iface = k

(* o has the owners of p, or some of them, in the same order. *)
Narrows(o, p) == \A i, k \in Ifaces : BelowIn(o, i, k) => BelowIn(p, i, k)

(* Nobody is below anybody where nobody owns the file. *)
LEMMA NoneBelow == \A i, k : ~BelowIn(<<>>, i, k)
BY DEF BelowIn

(* Vec::retain leaves every two owners that it keeps in their order. *)
LEMMA RetainNarrows ==
    ASSUME NEW o \in Seq(Owner), NEW K \in SUBSET DOMAIN o
    PROVE  Narrows(Retain(o, K), o)
<1> DEFINE r == Retain(o, K)
<1>1. r \in Seq(Owner)
  BY Retained
<1>2. PICK f \in [DOMAIN r -> K] : /\ \A a \in DOMAIN r : r[a] = o[f[a]]
                                   /\ \A a, b \in DOMAIN r : a < b => f[a] < f[b]
  BY Retained
<1> HIDE DEF r
<1>3. \A a \in DOMAIN r : a \in Nat /\ f[a] \in DOMAIN o /\ f[a] \in Nat
  BY <1>1, <1>2
<1>5. ASSUME NEW i \in Ifaces, NEW k \in Ifaces, BelowIn(r, i, k) PROVE BelowIn(o, i, k)
  <2>1. PICK a, b \in DOMAIN r : a < b /\ r[a].iface = i /\ r[b].iface = k
    BY <1>5 DEF BelowIn
  <2>2. f[a] < f[b] /\ o[f[a]].iface = i /\ o[f[b]].iface = k
    BY <1>2, <2>1
  <2> QED BY <1>3, <2>2 DEF BelowIn
<1> QED BY <1>5 DEF Narrows, r

(* So does pruning the owners whose processes are dead (prune). *)
LEMMA LivingNarrows ==
    ASSUME NEW o \in Seq(Owner)
    PROVE  Narrows(Living(o), o)
BY RetainNarrows DEF Living

(* And so does taking one member out (clear_with, set_file_at). *)
LEMMA OthersNarrow ==
    ASSUME NEW o \in Seq(Owner), NEW i
    PROVE  Narrows(Others(o, i), o)
BY RetainNarrows DEF Others

(* A new owner goes on top of the others and changes nothing among them (set_file_at). *)
LEMMA AppendOrder ==
    ASSUME NEW o \in Seq(Owner), NEW w \in Owner, NEW i, NEW k, BelowIn(Append(o, w), k, i)
    PROVE  BelowIn(o, k, i) \/ i = w.iface
<1> DEFINE r == Append(o, w)
           n == Len(o)
<1>1. /\ n \in Nat /\ DOMAIN o = 1 .. n /\ DOMAIN r = 1 .. n + 1 /\ r[n + 1] = w
      /\ \A a \in 1 .. n : r[a] = o[a]
  OBVIOUS
<1> HIDE DEF r, n
<1> SUFFICES ASSUME i # w.iface PROVE BelowIn(o, k, i)
  OBVIOUS
<1>2. PICK a, b \in 1 .. n + 1 : a < b /\ r[a].iface = k /\ r[b].iface = i
  BY <1>1 DEF BelowIn, r
<1>3. b # n + 1
  BY <1>1, <1>2
<1>4. a \in 1 .. n /\ b \in 1 .. n
  BY <1>1, <1>2, <1>3
<1> QED BY <1>1, <1>2, <1>4 DEF BelowIn

(* verify repeats the servers that it found, unless it gave the file up. *)
Repeats ==
    holder # None /\ holder.op = "verify" /\ holder.at = "set_file" =>
        Unchanged \/ holder.mem.owners = <<>>

(* What the operation is about to save puts nobody above an owner but the caller of a set
   of servers that the journal does not have for it. *)
Ordered ==
    holder # None =>
        \A i, k \in Ifaces :
           BelowIn(holder.mem.owners, k, i) /\ Owns(journal, k) =>
              BelowIn(journal.owners, k, i) \/ SetsNew(i)

OrderInv == Ordered /\ Repeats

(* Nobody owns the file at the start. *)
LEMMA OrderStart ==
    ASSUME Init
    PROVE  OrderInv
BY DEF Init, OrderInv, Ordered, Repeats

(* The owners, in both copies of the journal. *)
LEMMA OwnersTyped ==
    ASSUME TypeOK
    PROVE  /\ journal.owners \in Seq(Owner)
           /\ holder # None => holder.mem.owners \in Seq(Owner)
BY HolderTyped DEF TypeOK, Journal

(* A decision that drops owners, or none. *)
LEMMA NarrowStep ==
    ASSUME journal' = journal, holder.mem.owners = journal.owners, Narrows(holder'.mem.owners, holder.mem.owners)
    PROVE  Ordered'
BY DEF Ordered, Narrows

(* Keeping all owners, and dropping all, keeps the order. *)
LEMMA NarrowSelf ==
    ASSUME NEW o
    PROVE  Narrows(o, o) /\ Narrows(<<>>, o)
BY NoneBelow DEF Narrows

(* No decision of an operation breaks the order: a repair leaves the owners alone, and
   only a set of new servers takes the file (set_file_at). *)
LEMMA OrderDecide ==
    ASSUME Typed, Holding, OrderInv,
           \/ PruneOwners \/ PruneFile \/ PruneLinks \/ \E i \in Ifaces : PruneLink(i)
           \/ Begin \/ QueryLink \/ SetLink \/ ReleaseFile \/ RepairFile \/ TakeFile
           \/ (RefuseFile \/ KeepFile \/ Close) \/ ClearLink \/ ClearFile
    PROVE  OrderInv'
<1> USE DEF Typed
<1>1. journal' = journal
  BY DecideIs
<1> SUFFICES ASSUME holder' # None PROVE Ordered' /\ Repeats'
  BY <1>1 DEF OrderInv, Ordered, Repeats
<1>2. ASSUME holder # None, holder.todo = <<>>, holder.at # "done",
             Narrows(holder'.mem.owners, holder.mem.owners)
      PROVE  Ordered'
  BY <1>1, <1>2, NarrowStep DEF Holding
<1>3. ASSUME holder # None, holder.todo = <<>>, holder.at # "done",
             holder'.mem.owners \in {holder.mem.owners, <<>>}
      PROVE  Ordered'
  BY <1>2, <1>3, NarrowSelf
<1>4. CASE PruneOwners
  <2>1. PICK o \in {holder.mem.owners, <<>>} : holder'.mem.owners = Living(o)
    BY <1>4, PruneOwnersIs
  <2>2. holder # None /\ holder.todo = <<>> /\ holder.at = "prune" /\ holder'.at = "restore"
    BY <1>4, PruneOwnersIs
  <2>3. o \in Seq(Owner) /\ Narrows(o, holder.mem.owners)
    <3>1. <<>> \in Seq(Owner)
      OBVIOUS
    <3> QED BY <2>1, <2>2, <3>1, OwnersTyped, NarrowSelf
  <2>4. Narrows(Living(o), o)
    BY <2>3, LivingNarrows
  <2>5. Narrows(holder'.mem.owners, holder.mem.owners)
    BY <2>1, <2>3, <2>4 DEF Narrows
  <2> QED BY <1>2, <2>2, <2>5 DEF Repeats
<1>5. CASE PruneFile
  BY <1>3, <1>5, PruneFileIs DEF Repeats
<1>6. CASE PruneLinks
  BY <1>3, <1>6, PruneLinksIs DEF Repeats
<1>7. ASSUME NEW i \in Ifaces, PruneLink(i) PROVE Ordered' /\ Repeats'
  BY <1>3, <1>7, PruneLinkIs DEF Repeats
<1>8. CASE Begin
  <2>1. Ordered'
    BY <1>3, <1>8, BeginIs
  <2>2. Repeats'
    <3> SUFFICES ASSUME holder'.op = "verify", holder'.at = "set_file" PROVE Unchanged'
      BY DEF Repeats
    <3>1. /\ holder'.iface = holder.iface /\ holder'.mem = holder.mem
          /\ \E k \in DOMAIN holder.mem.owners :
                holder.mem.owners[k].iface = holder.iface /\ holder'.dns = holder.mem.owners[k].dns
      BY <1>8, BeginIs
    <3> QED BY <3>1 DEF Unchanged
  <2> QED BY <2>1, <2>2
<1>9. CASE QueryLink
  BY <1>3, <1>9, QueryLinkIs DEF Repeats, SameCall
<1>10. CASE SetLink
  BY <1>3, <1>10, SetLinkIs DEF Repeats, SameCall, CallOK
<1>11. CASE ClearLink
  BY <1>3, <1>11, ClearLinkIs DEF Repeats
<1>12. CASE ReleaseFile
  BY <1>3, <1>12, ReleaseFileIs DEF Repeats
<1>13. CASE RefuseFile \/ KeepFile \/ Close
  BY <1>13, CloseIs
<1>14. CASE ClearFile
  <2> DEFINE o == Others(holder.mem.owners, holder.iface)
  <2>1. holder # None /\ holder.todo = <<>> /\ holder.at = "clear_file" /\ holder'.at = "done"
        /\ holder'.mem.owners \in {o, <<>>}
    BY <1>14, ClearFileIs
  <2>2. Narrows(o, holder.mem.owners) /\ Narrows(<<>>, holder.mem.owners)
    BY <2>1, OwnersTyped, NarrowSelf, OthersNarrow
  <2> HIDE DEF o
  <2> QED BY <1>2, <2>1, <2>2 DEF Repeats
<1>15. CASE RepairFile \/ TakeFile
  <2> DEFINE o == Others(holder.mem.owners, holder.iface)
  <2>1. holder # None /\ holder.todo = <<>> /\ holder.at = "set_file" /\ holder'.at = "done" /\ SameCall
    BY <1>15, TakeFileIs
  <2>2. CASE holder'.mem.owners = holder.mem.owners
    BY <1>3, <2>1, <2>2 DEF Repeats
  <2>3. CASE ~Unchanged /\ holder'.mem.owners = Append(o, Owning)
    <3>1. holder.mem = journal /\ holder.mem.owners \in Seq(Owner)
      BY <2>1, OwnersTyped DEF Holding
    <3>2. o \in Seq(Owner) /\ Narrows(o, journal.owners)
      BY <3>1, OthersSeq, OthersNarrow
    <3>3. Owning \in Owner /\ Owning.iface = holder.iface
      <4>1. holder.iface \in Ifaces /\ holder.dns \in Dns /\ running[holder.iface] \in Nat
        BY <2>1, HolderTyped, ConstantsAssumption DEF CallOK, TypeOK
      <4> QED BY <4>1 DEF Owning, Owner
    <3> HIDE DEF o
    <3>4. ASSUME NEW i \in Ifaces, NEW k \in Ifaces, BelowIn(Append(o, Owning), k, i),
                 Owns(journal, k), ~BelowIn(journal.owners, k, i)
          PROVE  SetsNew(i)
      <4>1. i = holder.iface
        BY <3>2, <3>3, <3>4, AppendOrder DEF Narrows
      <4>2. holder.mem.owners # <<>>
        BY <3>1, <3>4 DEF Owns
      <4>3. holder.op \in {"set", "verify"}
        BY <2>1, HolderTyped DEF CallOK, Operation
      <4>4. holder.op = "set"
        BY <2>1, <2>3, <4>2, <4>3 DEF OrderInv, Repeats
      <4> QED BY <2>1, <2>3, <3>1, <4>1, <4>4 DEF SetsNew, Unchanged
    <3>5. ASSUME NEW i \in Ifaces, SetsNew(i) PROVE SetsNew(i)'
      BY <1>1, <2>1, <3>5 DEF SetsNew, SameCall
    <3>6. Ordered'
      BY <1>1, <2>3, <3>4, <3>5 DEF Ordered, Owns
    <3> QED BY <2>1, <3>6 DEF Repeats
  <2> QED BY <1>15, <2>2, <2>3, TakeFileIs
<1> QED BY <1>4, <1>5, <1>6, <1>7, <1>8, <1>9, <1>10, <1>11, <1>12, <1>13, <1>14, <1>15

(* Neither does any other step: a save makes the copy the journal. *)
LEMMA OrderStep ==
    ASSUME Typed, Holding, OrderInv, [Next]_vars
    PROVE  OrderInv'
<1> USE DEF Typed
<1>1. ASSUME NEW i \in Ifaces, NEW op \in {"set", "verify", "clear"}, NEW dns \in Dns \cup {None},
             Open(i, op, dns)
      PROVE  OrderInv'
  <2>1. journal' = journal /\ holder' # None /\ holder'.at = "prune" /\ holder'.mem = journal
    BY <1>1, OpenIs
  <2>2. Ordered'
    BY <2>1 DEF Ordered
  <2> QED BY <2>1, <2>2 DEF OrderInv, Repeats
<1>2. ASSUME holder # None, journal' \in {journal, holder.mem}, holder' = None \/ SameOperation
      PROVE  OrderInv'
  <2>1. Repeats'
    BY <1>2 DEF OrderInv, Repeats, SameOperation, SameCall, Unchanged
  <2>2. CASE holder' = None
    BY <2>1, <2>2 DEF OrderInv, Ordered
  <2>3. CASE SameOperation /\ journal' = journal /\ holder' # None
    <3>1. ASSUME NEW i \in Ifaces, SetsNew(i) PROVE SetsNew(i)'
      BY <2>3, <3>1 DEF SetsNew, SameOperation, SameCall
    <3>2. Ordered'
      BY <1>2, <2>3, <3>1 DEF OrderInv, Ordered, SameOperation, Owns
    <3> QED BY <2>1, <3>2 DEF OrderInv
  <2>4. CASE SameOperation /\ journal' = holder.mem
    <3>1. Ordered'
      BY <2>4 DEF Ordered, SameOperation
    <3> QED BY <2>1, <3>1 DEF OrderInv
  <2> QED BY <1>2, <2>2, <2>3, <2>4
<1>3. CASE Perform
  BY <1>2, <1>3, PerformIs DEF Saved, Written
<1>4. CASE Fail
  BY <1>2, <1>4, FailIs DEF Saved, Written
<1>5. CASE UNCHANGED journal /\ holder' \in {holder, None}
  <2>1. Ordered' /\ Repeats'
    BY <1>5 DEF OrderInv, Ordered, Repeats, Unchanged, Owns, SetsNew
  <2> QED BY <1>5, <2>1 DEF OrderInv
<1>6. ASSUME NEW i \in Ifaces, Start(i) \/ Stop(i) PROVE OrderInv'
  BY <1>5, <1>6 DEF Start, Stop
<1>7. CASE Reboot
  BY <1>5, <1>7 DEF Reboot
<1>8. ASSUME NEW c \in Foreign, ForeignWrite(c) PROVE OrderInv'
  BY <1>5, <1>8 DEF ForeignWrite
<1>9. ASSUME NEW t \in Targets, Retarget(t) PROVE OrderInv'
  BY <1>5, <1>9 DEF Retarget
<1>10. CASE UNCHANGED vars
  BY <1>5, <1>10 DEF vars
<1> QED BY NextIs, OrderDecide, <1>1, <1>3, <1>4, <1>6, <1>7, <1>8, <1>9, <1>10

(* Every step that saves the journal is one of the operation that holds the lock. *)
LEMMA JournalSteps ==
    ASSUME Typed, [Next]_vars
    PROVE  journal' = journal \/ (holder # None /\ journal' = holder.mem)
<1> USE DEF Typed
<1>1. CASE Perform
  BY <1>1, PerformIs DEF Saved, Written
<1>2. CASE Fail
  BY <1>2, FailIs DEF Saved, Written
<1>3. ASSUME NEW i \in Ifaces, NEW op, NEW dns, Open(i, op, dns) PROVE journal' = journal
  BY <1>3 DEF Open
<1>4. ASSUME NEW i \in Ifaces, Start(i) \/ Stop(i) PROVE journal' = journal
  BY <1>4 DEF Start, Stop
<1>5. ASSUME NEW c, ForeignWrite(c) \/ Retarget(c) \/ Reboot \/ UNCHANGED vars PROVE journal' = journal
  BY <1>5 DEF ForeignWrite, Retarget, Reboot, vars
<1> QED BY NextIs, DecideIs, <1>1, <1>2, <1>3, <1>4, <1>5

-----------------------------------------------------------------------------
(* What it comes to. *)

IInv == Typed /\ Holding /\ LinkInv /\ FileInv /\ OrigInv /\ OrderInv

(* What DnsJournalSteps takes of Vec::retain is so. *)
LEMMA RetainsHolds == Retains
BY Retained DEF Retains

(* The inductive invariant holds in every reachable state. *)
LEMMA Invariance == Spec => []IInv
<1>1. Init => IInv
  BY RetainsHolds, TypeStart, LinkStart, FileStart, OrigStart, OrderStart DEF IInv, Typed
<1>2. IInv /\ [Next]_vars => IInv'
  BY TypeStep, HoldStep, LinkStep, FileStep, OrigStep, OrderStep DEF IInv
<1> QED BY <1>1, <1>2, PTL DEF Spec

(* TypeOK: the journal and the operation under the lock keep their shapes, for any
   interfaces, servers, files and bounds (managed.rs). *)
THEOREM JournalTyped == Spec => []TypeOK
<1>1. IInv => TypeOK
  BY DEF IInv, Typed
<1> QED BY <1>1, Invariance, PTL

(* LinkAccounted: while settings of ours may be in force on a link, the journal has the
   settings from before and never our own (set_mode_with, clear_with, prune). *)
THEOREM LinksAccounted == Spec => []LinkAccounted
<1>1. IInv => LinkAccounted
  BY DEF IInv, LinkInv, LinksOf, LinkAccounted
<1> QED BY <1>1, Invariance, PTL

(* NoLeftover: once the journal is released, no body of ours is left in the resolver file,
   whatever crashed, failed or was rebooted on the way (restore_file, set_file_at). *)
THEOREM NothingLeft == Spec => []NoLeftover
<1>1. IInv => NoLeftover
  BY DEF IInv, FileInv, Recorded, NoLeftover
<1> QED BY <1>1, Invariance, PTL

(* OriginalKept: the original of /etc is in the file or in the journal unless a body of ours
   was taken for somebody else's (set_file_at, restore_file, prune). *)
THEOREM OriginalSafe == Spec => []OriginalKept
<1>1. IInv => OriginalKept
  <2> SUFFICES ASSUME IInv, ~slipped, external = 0, link \notin Volatile
               PROVE  IF journal.file = None THEN file[link] = Orig ELSE journal.file.bytes = Orig
    BY DEF OriginalKept, Kept
  <2>1. ~moved /\ file[link] \in Dns \cup {Orig}
        /\ (journal.file # None => journal.file.bytes \in Dns \cup {Orig})
    BY DEF IInv, OrigInv
  <2>2. Recorded
    BY <2>1 DEF IInv, FileInv
  <2> QED BY <2>1, <2>2 DEF Recorded, Sound
<1> QED BY <1>1, Invariance, PTL

(* OrderKept: whoever gets above an owner does so by its own set of servers that the journal
   does not have for it; no verify, repeated set, repair or exit of another changes the order
   of two owners (set_file_at, prune, clear_with). *)
THEOREM PrecedenceKept == Spec => OrderKept
<1>1. ASSUME IInv, [Next]_vars, NEW i \in Ifaces, NEW k \in Ifaces, Overtakes(i, k)
      PROVE  SetsNew(i)
  <2>1. /\ Owns(journal, k) /\ ~BelowIn(journal.owners, k, i)
        /\ BelowIn(journal'.owners, k, i)
    BY <1>1 DEF Overtakes, Below, BelowIn
  <2>2. holder # None /\ journal' = holder.mem
    BY <1>1, <2>1, JournalSteps DEF IInv
  <2> QED BY <1>1, <2>1, <2>2 DEF IInv, OrderInv, Ordered
<1>2. IInv /\ [Next]_vars => [\A i, k \in Ifaces : Overtakes(i, k) => SetsNew(i)]_vars
  BY <1>1
<1> QED BY <1>2, Invariance, PTL DEF Spec, OrderKept

=============================================================================
