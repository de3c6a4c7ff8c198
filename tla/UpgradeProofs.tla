----------------------------- MODULE UpgradeProofs -------------------------------
(***********************************************************************************)
(* Proofs about Upgrade and the configuration of the node, for any lists of seeds, *)
(* sources, keys and originals, and any number of runs and starts.                 *)
(***********************************************************************************)
EXTENDS Upgrade, SequenceTheorems, WellFoundedInduction, TLAPS

Preparing == {"commander", "dirs", "read", "config", "rename", "data"}

\* What the steps of the script find: a step that needs a directory comes after the
\* one that made it, and what was moved does not come back.
StepsPrepared ==
    /\ At("commander") => commander # Absent
    /\ script.pc \in Preparing => data.old # Absent
    /\ script.pc \in {"read", "config", "rename"} => data.new # Absent
    /\ script.pc \in {"read", "config"} => dir # Absent
    /\ At("rename") => dir # Absent \/ old # Absent
    /\ script.pc \in MovedSteps => old = Absent

\* The node runs only between runs of the script, from a directory that is there.
NodeRuns == node.pc # "off" => At("idle") /\ dir # Absent

\* The old directory is never written: it is as the user had it until it is moved.
OldUntouched ==
    /\ user.list \in Seq(Peers)
    /\ old # Absent => \A f \in user.files : old[f] \notin {Absent, Torn}
    /\ old # Absent /\ "peers" \in user.files => old.peers = user.list

\* .env has one place at a time.
EnvKept ==
    /\ data.old # Absent => data.old.env = user.env
    /\ data.old = Absent => data.new # Absent /\ data.new.env = user.env

\* The files that are rewritten one after the other
RewrittenSoFar ==
    /\ script.pc \in {"env", "plugins", "validate", "done"} => dir.delegates = "core"
    /\ script.pc \in {"plugins", "validate", "done"} => dir.env = "core"
    /\ script.pc \in {"validate", "done"} => dir.plugins = "core"
    /\ At("done") => dir.peers \notin {Absent, Torn}

\* The list follows the user's: all of it first, then peers that are new where they stand.
Follows(list, users) ==
    /\ Len(users) <= Len(list)
    /\ \A i \in 1..Len(users) : list[i] = users[i]
    /\ \A i \in Len(users) + 1..Len(list) : \A j \in 1..i - 1 : list[j] # list[i]

\* The lists of the node and in its directory are the user's and what follows, and
\* whoever leaves no list there died.
SeedsFollow ==
    "peers" \in user.files =>
        /\ node.pc # "off" => Follows(node.list, user.list)
        /\ dir # Absent /\ dir.peers \notin {Absent, Torn} => Follows(dir.peers, user.list)
        /\ dir # Absent /\ dir.peers = Torn => "peers" \in cut \/ node.pc = "writing"

UpgradeInv ==
    /\ UpgradeTypeOK
    /\ StepsPrepared
    /\ NodeRuns
    /\ OldUntouched
    /\ EnvKept
    /\ RewrittenSoFar
    /\ UserFilesKept
    /\ SeedsFollow

---------------------------------------------------------------------------------
(* Lists of seeds *)

\* Induction over the naturals, for a property given as the set of those that have it
LEMMA LeastNat ==
    ASSUME NEW T \in SUBSET Nat, T # {}
    PROVE  \E x \in T : \A y \in T : x <= y
<1>1. PICK x \in T : \A y \in T : ~(<<y, x>> \in OpToRel(<, Nat))
  BY NatLessThanWellFounded, WFMin, Zenon
<1>2. \A y \in T : ~(y < x)
  BY <1>1 DEF OpToRel
<1>3. QED
  BY <1>2

LEMMA InductionOverNat ==
    ASSUME NEW S, 0 \in S, \A n \in Nat : n \in S => n + 1 \in S
    PROVE  Nat \subseteq S
<1> DEFINE T == {n \in Nat : n \notin S}
<1> SUFFICES ASSUME T # {} PROVE FALSE
  OBVIOUS
<1>1. T \in SUBSET Nat
  OBVIOUS
<1>2. PICK x \in T : \A y \in T : x <= y
  <2> HIDE DEF T
  <2>1. QED
    BY <1>1, LeastNat
<1>3. x # 0 /\ x - 1 \in Nat /\ x - 1 \notin T
  BY <1>2
<1>4. QED
  BY <1>3

\* The lists that lead from one list to its merger with what was fetched
Merging(merged, list, fetched, n) ==
    merged = [i \in 0..n |-> IF i = 0 THEN list ELSE Added(merged[i - 1], fetched[i])]

LEMMA MergingExists ==
    ASSUME NEW list, NEW fetched
    PROVE  \A n \in Nat : \E merged : Merging(merged, list, fetched, n)
<1> DEFINE S == {n \in Nat : \E merged : Merging(merged, list, fetched, n)}
<1>1. 0 \in S
  <2> DEFINE m == [i \in 0..0 |-> list]
  <2>1. Merging(m, list, fetched, 0)
    BY DEF Merging
  <2> HIDE DEF m
  <2>2. QED
    BY <2>1
<1>2. ASSUME NEW n \in Nat, n \in S
      PROVE  n + 1 \in S
  <2>1. PICK m : Merging(m, list, fetched, n)
    BY <1>2
  <2> DEFINE next == [i \in 0..n + 1 |-> IF i = 0 THEN list ELSE Added(m[i - 1], fetched[i])]
  <2>2. \A i \in 0..n : next[i] = m[i]
    BY <2>1 DEF Merging
  <2>3. ASSUME NEW i \in 0..n + 1
        PROVE  next[i] = IF i = 0 THEN list ELSE Added(next[i - 1], fetched[i])
    <3>1. i # 0 => i - 1 \in 0..n
      OBVIOUS
    <3>2. i # 0 => next[i - 1] = m[i - 1]
      BY <2>2, <3>1
    <3>3. next[i] = IF i = 0 THEN list ELSE Added(m[i - 1], fetched[i])
      OBVIOUS
    <3> HIDE DEF next
    <3>4. QED
      BY <3>2, <3>3
  <2>4. Merging(next, list, fetched, n + 1)
    <3>1. next = [i \in 0..n + 1 |-> next[i]]
      OBVIOUS
    <3> HIDE DEF next
    <3>2. QED
      BY <2>3, <3>1 DEF Merging
  <2> HIDE DEF next
  <2>5. QED
    BY <2>4
<1> HIDE DEF S
<1>3. Nat \subseteq S
  BY <1>1, <1>2, InductionOverNat
<1>4. QED
  BY <1>3 DEF S

LEMMA MergeIsMerging ==
    ASSUME NEW list, NEW fetched, Len(fetched) \in Nat
    PROVE  \E merged : Merging(merged, list, fetched, Len(fetched))
                       /\ Merge(list, fetched) = merged[Len(fetched)]
<1> DEFINE m == CHOOSE merged : Merging(merged, list, fetched, Len(fetched))
<1>1. Merging(m, list, fetched, Len(fetched))
  BY MergingExists
<1>2. Merge(list, fetched) = m[Len(fetched)]
  BY DEF Merge, Merging
<1>3. QED
  BY <1>1, <1>2

LEMMA AddedFollows ==
    ASSUME NEW list \in Seq(Peers), NEW users \in Seq(Peers), NEW p \in Peers
    PROVE  /\ Added(list, p) \in Seq(Peers)
           /\ Follows(list, users) => Follows(Added(list, p), users)
<1>1. CASE Contains(list, p)
  BY <1>1 DEF Added
<1>2. CASE ~Contains(list, p)
  <2>0. PICK k, n \in Nat : k = Len(users) /\ n = Len(list)
    BY LenProperties
  <2>1. /\ Added(list, p) = Append(list, p) /\ Added(list, p) \in Seq(Peers)
        /\ Len(Added(list, p)) = n + 1
        /\ \A i \in 1..n : Added(list, p)[i] = list[i]
        /\ Added(list, p)[n + 1] = p
    BY <1>2, <2>0, AppendProperties DEF Added
  <2>2. \A i \in 1..n : list[i] # p
    BY <1>2, <2>0 DEF Contains
  <2>3. ASSUME Follows(list, users)
        PROVE  Follows(Added(list, p), users)
    <3> DEFINE added == Added(list, p)
    <3>1. k <= n /\ \A i \in 1..k : i \in 1..n /\ list[i] = users[i]
      BY <2>0, <2>3 DEF Follows
    <3>2. \A i \in k + 1..n : \A j \in 1..i - 1 : i \in 1..n /\ j \in 1..n /\ list[j] # list[i]
      BY <2>0, <2>3 DEF Follows
    <3> HIDE DEF added
    <3>3. /\ Len(added) = n + 1 /\ \A i \in 1..n : added[i] = list[i]
          /\ added[n + 1] = p
      BY <2>1 DEF added
    <3>4. ASSUME NEW i \in k + 1..n + 1, NEW j \in 1..i - 1 PROVE added[j] # added[i]
      <4>1. CASE i \in k + 1..n
        BY <3>2, <3>3, <4>1
      <4>2. CASE i = n + 1
        BY <2>2, <3>3, <4>2
      <4>3. QED
        BY <4>1, <4>2
    <3>5. \A i \in 1..k : added[i] = users[i]
      BY <3>1, <3>3
    <3>6. Follows(added, users)
      BY <2>0, <3>1, <3>3, <3>4, <3>5 DEF Follows
    <3>7. QED
      BY <3>6 DEF added
  <2>4. QED
    BY <2>1, <2>3
<1>3. QED
  BY <1>1, <1>2

\* Whatever is fetched, the merger of a list that follows the user's follows it too.
LEMMA MergeFollows ==
    ASSUME NEW list \in Seq(Peers), NEW users \in Seq(Peers), NEW fetched \in Seq(Peers)
    PROVE  /\ Merge(list, fetched) \in Seq(Peers)
           /\ Follows(list, users) => Follows(Merge(list, fetched), users)
<1>0. PICK n \in Nat : n = Len(fetched) /\ \A i \in 1..n : fetched[i] \in Peers
  BY LenProperties, ElementOfSeq
<1>1. PICK m : Merging(m, list, fetched, n) /\ Merge(list, fetched) = m[n]
  BY <1>0, MergeIsMerging
<1>2. m[0] = list /\ \A i \in 1..n : m[i] = Added(m[i - 1], fetched[i])
  <2>1. \A i \in 0..n : m[i] = IF i = 0 THEN list ELSE Added(m[i - 1], fetched[i])
    BY <1>1 DEF Merging
  <2>2. 0 \in 0..n /\ \A i \in 1..n : i \in 0..n /\ i # 0
    OBVIOUS
  <2>3. QED
    BY <2>1, <2>2
<1> DEFINE Good(l) == l \in Seq(Peers) /\ (Follows(list, users) => Follows(l, users))
           S == {i \in Nat : i <= n => Good(m[i])}
<1>3. 0 \in S
  BY <1>2
<1>4. ASSUME NEW i \in Nat, i \in S PROVE i + 1 \in S
  <2>1. CASE i + 1 <= n
    <3>1. i + 1 \in 1..n /\ i <= n /\ (i + 1) - 1 = i
      BY <2>1
    <3>2. m[i + 1] = Added(m[i], fetched[i + 1]) /\ fetched[i + 1] \in Peers
      BY <1>0, <1>2, <3>1
    <3>3. Good(m[i])
      BY <1>4, <3>1
    <3>4. Good(m[i + 1])
      BY <3>2, <3>3, AddedFollows
    <3>5. QED
      BY <3>4
  <2>2. CASE ~(i + 1 <= n)
    BY <2>2
  <2>3. QED
    BY <2>1, <2>2
<1> HIDE DEF S
<1>5. Nat \subseteq S
  BY <1>3, <1>4, InductionOverNat
<1>6. n \in S
  BY <1>5
<1>7. QED
  BY <1>1, <1>6 DEF S

\* What follows the user's list keeps it as PeersKept says.
LEMMA FollowsKeeps ==
    ASSUME NEW list \in Seq(Peers), NEW users \in Seq(Peers), Follows(list, users)
    PROVE  /\ IsPrefix(users, list)
           /\ \A i \in Len(users) + 1..Len(list) : ~Contains(SubSeq(list, 1, i - 1), list[i])
<1>0. PICK k, n \in Nat : k = Len(users) /\ n = Len(list)
  BY LenProperties
<1>1. \A i \in 1..n : list[i] \in Peers
  BY <1>0, ElementOfSeq
<1>2. IsPrefix(users, list)
  <2>1. k <= n /\ \A i \in 1..k : list[i] = users[i]
    BY <1>0 DEF Follows
  <2>2. \A i \in 1..k : users[i] \in Peers /\ list[i] \in Peers
    BY <1>0, <1>1, <2>1, ElementOfSeq
  <2>3. SubSeq(users, 1, k) = [i \in 1..k |-> users[i]]
    BY <2>2, SubSeqProperties
  <2>4. SubSeq(list, 1, k) = [i \in 1..k |-> list[i]]
    BY <2>2, SubSeqProperties
  <2>5. SubSeq(users, 1, k) = SubSeq(list, 1, k)
    BY <2>1, <2>3, <2>4
  <2>6. QED
    BY <1>0, <2>1, <2>5 DEF IsPrefix
<1>3. ASSUME NEW i \in k + 1..n, Contains(SubSeq(list, 1, i - 1), list[i])
      PROVE  FALSE
  <2>1. i - 1 \in Nat /\ \A j \in 1..i - 1 : list[j] \in Peers /\ list[j] # list[i]
    BY <1>0, <1>1 DEF Follows
  <2>2. /\ Len(SubSeq(list, 1, i - 1)) = i - 1
        /\ \A j \in 1..i - 1 : SubSeq(list, 1, i - 1)[j] = list[j]
    BY <2>1, SubSeqProperties
  <2>3. QED
    BY <1>3, <2>1, <2>2 DEF Contains
<1>4. QED
  BY <1>0, <1>2, <1>3

LEMMA UsersFollow ==
    ASSUME NEW users \in Seq(Peers)
    PROVE  Follows(users, users)
<1>1. PICK k \in Nat : k = Len(users)
  BY LenProperties
<1>2. QED
  BY <1>1 DEF Follows

---------------------------------------------------------------------------------
(* The steps of the script *)

LEMMA Begins == UpgradeInit => UpgradeInv
<1> SUFFICES ASSUME UpgradeInit PROVE UpgradeInv
  OBVIOUS
<1>0. PICK list \in UserLists, has \in SUBSET Required, config \in BOOLEAN :
          /\ old = IF ~config THEN Absent
                   ELSE [f \in Files |-> IF f \notin has THEN Absent
                                         ELSE IF f = "peers" THEN list ELSE "ark"]
          /\ \E env \in {"ark", Absent}, clutter \in BOOLEAN :
              /\ data = [old |-> [env |-> env, clutter |-> clutter], new |-> Absent]
              /\ user = [files |-> IF config THEN has ELSE {}, list |-> list, env |-> env]
  BY DEF UpgradeInit
<1>1. /\ dir = Absent /\ node = Off /\ script = Idle /\ cut = {}
      /\ commander \in {Absent} \cup SUBSET Keys
  BY DEF UpgradeInit
<1>2. PICK env \in {"ark", Absent}, clutter \in BOOLEAN :
          /\ data = [old |-> [env |-> env, clutter |-> clutter], new |-> Absent]
          /\ user = [files |-> IF config THEN has ELSE {}, list |-> list, env |-> env]
  BY <1>0
<1>3. list \in Seq(Peers)
  BY ConfigurationAssumption
<1>4. data.old \in DataDirectories /\ data.old # Absent /\ data.old.env = env /\ data.new = Absent
  BY <1>2, UpgradeAssumption DEF DataDirectories
<1>5. config => old \in Directories /\ old # Absent
  <2>1. config => old \in Directories
    BY <1>0, <1>3 DEF Directories, Forms, Files
  <2>2. QED
    BY <2>1, UpgradeAssumption
<1>6. old # Absent => config /\ \A f \in has : old[f] = IF f = "peers" THEN list ELSE "ark"
  BY <1>0 DEF Required, Files
<1>7. UpgradeTypeOK
  <2>1. node \in Nodes
    BY <1>1, EmptySeq DEF Off, Nodes
  <2>2. script \in [pc : Steps, seen : SUBSET Keys, env : {"ark", Absent}, renames : BOOLEAN]
    BY <1>1 DEF Idle, Steps
  <2>3. data \in [old : DataDirectories \cup {Absent}, new : DataDirectories \cup {Absent}]
    BY <1>2, <1>4
  <2>4. user.files \subseteq Required /\ script.pc \notin MovedSteps
    BY <1>1, <1>2 DEF Idle, MovedSteps, Rewritten
  <2>5. QED
    BY <1>0, <1>1, <1>5, <2>1, <2>2, <2>3, <2>4 DEF UpgradeTypeOK
<1>8. StepsPrepared /\ NodeRuns /\ RewrittenSoFar
  BY <1>1 DEF StepsPrepared, NodeRuns, RewrittenSoFar, At, Idle, Off, MovedSteps, Rewritten,
              Preparing
<1>9. OldUntouched
  <2>1. Absent \notin Seq(Peers) \cup {"ark"} /\ Torn \notin Seq(Peers) \cup {"ark"}
    BY UpgradeAssumption DEF Forms
  <2>2. QED
    BY <1>2, <1>3, <1>6, <2>1 DEF OldUntouched
<1>10. EnvKept
  BY <1>2, <1>4 DEF EnvKept
<1>11. UserFilesKept
  <2>1. ASSUME NEW f \in user.files
        PROVE  \E d \in {old, dir} \ {Absent} :
                  d[f] # Absent /\ (d[f] = Torn => f \in cut \/ (f = "peers" /\ node.pc = "writing"))
    <3>1. config /\ f \in has
      BY <1>2, <2>1
    <3>2. old # Absent
      BY <1>5, <3>1
    <3>3. QED
      BY <1>9, <3>2 DEF OldUntouched
  <2>2. QED
    BY <1>2, <1>4, <2>1 DEF UserFilesKept
<1>12. SeedsFollow
  BY <1>1 DEF SeedsFollow, Off
<1>13. QED
  BY <1>7, <1>8, <1>9, <1>10, <1>11, <1>12 DEF UpgradeInv

\* A step of the script that touches no file
LEMMA FilesStay ==
    ASSUME UpgradeInv, UNCHANGED <<dir, node, old, data, user, cut>>
    PROVE  OldUntouched' /\ EnvKept' /\ UserFilesKept' /\ SeedsFollow'
<1> USE DEF UpgradeInv
<1>1. OldUntouched' /\ EnvKept'
  BY DEF OldUntouched, EnvKept
<1>2. UserFilesKept'
  BY DEF UserFilesKept
<1>3. SeedsFollow'
  BY DEF SeedsFollow
<1>4. QED
  BY <1>1, <1>2, <1>3

LEMMA GoesTo ==
    ASSUME UpgradeTypeOK, NEW pc \in Steps, To(pc)
    PROVE  /\ script' \in [pc : Steps, seen : SUBSET Keys, env : {"ark", Absent},
                           renames : BOOLEAN]
           /\ script'.pc = pc
BY DEF UpgradeTypeOK, To

LEMMA ScriptIsTyped ==
    UpgradeTypeOK => script.pc \in Steps /\ script.seen \in SUBSET Keys
BY DEF UpgradeTypeOK

\* While the script runs the node does not.
LEMMA NodeIsOff ==
    ASSUME UpgradeInv, script.pc # "idle"
    PROVE  node.pc = "off"
BY DEF UpgradeInv, NodeRuns, At

LEMMA BeginKeeps ==
    ASSUME UpgradeInv, Begin
    PROVE  UpgradeInv'
<1> USE DEF UpgradeInv
<1>1. PICK renames \in BOOLEAN :
          script' = IF commander = Absent
                    THEN [Idle EXCEPT !.pc = "dirs", !.renames = renames]
                    ELSE [Idle EXCEPT !.pc = "commander", !.renames = renames, !.seen = commander]
  BY DEF Begin
<1>2. /\ node.pc = "off" /\ data.old # Absent
      /\ UNCHANGED <<dir, node, old, data, commander, user, cut>>
  BY DEF Begin
<1>3. commander # Absent => commander \in SUBSET Keys
  BY DEF UpgradeTypeOK
<1>4. /\ script' \in [pc : Steps, seen : SUBSET Keys, env : {"ark", Absent}, renames : BOOLEAN]
      /\ script'.pc = "dirs" \/ (script'.pc = "commander" /\ commander # Absent)
  BY <1>1, <1>3 DEF Idle, Steps
<1>5. UpgradeTypeOK'
  BY <1>2, <1>4 DEF UpgradeTypeOK, MovedSteps, Rewritten
<1>6. StepsPrepared' /\ NodeRuns' /\ RewrittenSoFar'
  BY <1>2, <1>4 DEF StepsPrepared, NodeRuns, RewrittenSoFar, At, MovedSteps, Rewritten, Preparing
<1>7. QED
  BY <1>2, <1>5, <1>6, FilesStay

LEMMA CommanderKeeps ==
    ASSUME UpgradeInv, (\E key \in Keys : AppendKey(key)) \/ WriteCommander
    PROVE  UpgradeInv'
<1> USE DEF UpgradeInv
<1>1. /\ script.pc = "commander" /\ commander \in SUBSET Keys
      /\ node.pc = "off" /\ data.old # Absent
      /\ UNCHANGED <<dir, node, old, data, user, cut>>
  BY NodeIsOff DEF AppendKey, WriteCommander, At, StepsPrepared, UpgradeTypeOK, Preparing
<1>2. /\ script' \in [pc : Steps, seen : SUBSET Keys, env : {"ark", Absent}, renames : BOOLEAN]
      /\ script'.pc \in {"dirs", "ended"} \/ (script'.pc = "commander" /\ commander' # Absent)
      /\ commander' \in SUBSET Keys
  <2>1. CASE WriteCommander
    <3>1. script.seen \in SUBSET Keys /\ "dirs" \in Steps /\ "ended" \in Steps
      BY ScriptIsTyped DEF Steps
    <3>2. CASE commander' = script.seen /\ To("dirs")
      BY <3>1, <3>2, GoesTo
    <3>3. ASSUME NEW part \in SUBSET script.seen, commander' = part, To("ended")
          PROVE  commander' \in SUBSET Keys
      BY <3>1, <3>3
    <3>4. To("ended") => /\ script' \in [pc : Steps, seen : SUBSET Keys, env : {"ark", Absent},
                                        renames : BOOLEAN]
                         /\ script'.pc = "ended"
      BY <3>1, GoesTo
    <3>5. QED
      BY <2>1, <3>2, <3>3, <3>4 DEF WriteCommander
  <2>2. ASSUME NEW key \in Keys, AppendKey(key)
        PROVE  script' = script /\ commander' # Absent /\ commander' \in SUBSET Keys
    <3>1. commander' = commander \cup {key} /\ script' = script
      BY <2>2 DEF AppendKey
    <3>2. commander' \in SUBSET Keys
      BY <1>1, <3>1
    <3>3. QED
      BY <3>1, <3>2, UpgradeAssumption
  <2>3. QED
    BY <1>1, <2>1, <2>2 DEF UpgradeTypeOK
<1>3. UpgradeTypeOK'
  BY <1>1, <1>2 DEF UpgradeTypeOK, MovedSteps, Rewritten
<1>4. StepsPrepared' /\ NodeRuns' /\ RewrittenSoFar'
  BY <1>1, <1>2 DEF StepsPrepared, NodeRuns, RewrittenSoFar, At, MovedSteps, Rewritten, Preparing
<1>5. QED
  BY <1>1, <1>3, <1>4, FilesStay

\* The steps that only look at the files, and the death of the script
LEMMA LooksOnlyKeeps ==
    ASSUME UpgradeInv, ReadEnv \/ Tidy \/ CopiedAll \/ Die
    PROVE  UpgradeInv'
<1> USE DEF UpgradeInv
<1>1. UNCHANGED <<dir, node, old, data, commander, user, cut>> /\ script.pc # "idle"
  BY DEF ReadEnv, Tidy, CopiedAll, Die, At
<1>2. node.pc = "off"
  BY <1>1, NodeIsOff
<1>3. /\ script' \in [pc : Steps, seen : SUBSET Keys, env : {"ark", Absent}, renames : BOOLEAN]
      /\ \/ script'.pc = "ended"
         \/ script.pc = "read" /\ script'.pc = "config"
         \/ script.pc = "tidy" /\ script'.pc = "copy"
         \/ script.pc = "copy" /\ script'.pc = "delegates"
  <2>1. CASE ReadEnv
    <3>1. script.pc = "read" /\ data.old.env \in {"ark", Absent}
      BY <2>1 DEF ReadEnv, At, StepsPrepared, Preparing, UpgradeTypeOK, DataDirectories
    <3>2. QED
      BY <2>1, <3>1 DEF ReadEnv, UpgradeTypeOK, Steps
  <2>2. CASE Tidy \/ CopiedAll \/ Die
    BY <2>2, GoesTo DEF Tidy, CopiedAll, Die, At, Steps, MovedSteps, Rewritten
  <2>3. QED
    BY <2>1, <2>2
<1>4. UpgradeTypeOK'
  BY <1>1, <1>3 DEF UpgradeTypeOK, MovedSteps, Rewritten
<1>5. StepsPrepared' /\ NodeRuns' /\ RewrittenSoFar'
  BY <1>1, <1>2, <1>3 DEF StepsPrepared, NodeRuns, RewrittenSoFar, At, MovedSteps, Rewritten,
                          Preparing
<1>6. QED
  BY <1>1, <1>4, <1>5, FilesStay

LEMMA NoDirectoryIsOne == NoDirectory \in Directories /\ NoDirectory # Absent
<1>1. NoDirectory \in Directories
  BY DEF NoDirectory, Directories, Files
<1>2. QED
  BY <1>1, UpgradeAssumption

LEMMA EnsureDirsKeeps ==
    ASSUME UpgradeInv, EnsureDirs
    PROVE  UpgradeInv'
<1> USE DEF UpgradeInv
<1>1. /\ script.pc = "dirs" /\ UNCHANGED <<node, old, commander, user, cut>>
      /\ dir' = IF dir = Absent THEN NoDirectory ELSE dir
      /\ data' = IF data.new = Absent
                 THEN [data EXCEPT !.new = [env |-> Absent, clutter |-> FALSE]] ELSE data
  BY DEF EnsureDirs, At
<1>2. /\ script' \in [pc : Steps, seen : SUBSET Keys, env : {"ark", Absent}, renames : BOOLEAN]
      /\ script'.pc = "read"
  BY GoesTo DEF EnsureDirs, Steps
<1>3. node.pc = "off" /\ data.old # Absent
  BY <1>1, NodeIsOff DEF StepsPrepared, Preparing
<1>4. dir' \in Directories /\ dir' # Absent
  BY <1>1, NoDirectoryIsOne DEF UpgradeTypeOK
<1>5. /\ data' \in [old : DataDirectories \cup {Absent}, new : DataDirectories \cup {Absent}]
      /\ data'.old = data.old /\ data'.new # Absent
  <2>1. [env |-> Absent, clutter |-> FALSE] \in DataDirectories
    BY DEF DataDirectories
  <2>2. [env |-> Absent, clutter |-> FALSE] # Absent
    BY <2>1, UpgradeAssumption
  <2>3. QED
    BY <1>1, <2>1, <2>2 DEF UpgradeTypeOK
<1>6. UpgradeTypeOK'
  BY <1>1, <1>2, <1>4, <1>5 DEF UpgradeTypeOK
<1>7. StepsPrepared' /\ NodeRuns' /\ RewrittenSoFar'
  BY <1>2, <1>1, <1>3, <1>4, <1>5 DEF StepsPrepared, NodeRuns, RewrittenSoFar, At, MovedSteps,
                                      Rewritten, Preparing
<1>8. OldUntouched' /\ EnvKept'
  BY <1>1, <1>3, <1>5 DEF OldUntouched, EnvKept
<1>9. UserFilesKept'
  <2>1. \A f \in user.files : \E d \in {old, dir} \ {Absent} :
            d[f] # Absent /\ (d[f] = Torn => f \in cut \/ (f = "peers" /\ node.pc = "writing"))
    BY DEF UserFilesKept
  <2>2. user.env = "ark" => data'.old.env = "ark"
    BY <1>3, <1>5 DEF EnvKept
  <2>3. {old, dir} \ {Absent} \subseteq {old, dir'} \ {Absent}
    BY <1>1
  <2>4. QED
    BY <1>1, <1>3, <1>5, <2>1, <2>2, <2>3 DEF UserFilesKept
<1>10. SeedsFollow'
  <2>1. NoDirectory.peers = Absent /\ Absent # Torn
    BY ConfigurationAssumption DEF NoDirectory, Files
  <2>2. QED
    BY <1>1, <2>1 DEF SeedsFollow
<1>11. QED
  BY <1>6, <1>7, <1>8, <1>9, <1>10

LEMMA RemoveConfigKeeps ==
    ASSUME UpgradeInv, RemoveConfig
    PROVE  UpgradeInv'
<1> USE DEF UpgradeInv
<1>1. /\ script.pc = "config" /\ UNCHANGED <<node, old, data, commander, user, cut>>
      /\ dir' = IF old = Absent THEN dir ELSE Absent
  BY DEF RemoveConfig, At
<1>2. /\ script' \in [pc : Steps, seen : SUBSET Keys, env : {"ark", Absent}, renames : BOOLEAN]
      /\ script'.pc = "rename"
  BY GoesTo DEF RemoveConfig, Steps
<1>3. node.pc = "off" /\ data.old # Absent /\ data.new # Absent /\ dir # Absent
  BY <1>1, NodeIsOff DEF StepsPrepared, Preparing
<1>4. UpgradeTypeOK'
  BY <1>1, <1>2 DEF UpgradeTypeOK, MovedSteps, Rewritten
<1>5. StepsPrepared' /\ NodeRuns' /\ RewrittenSoFar'
  BY <1>1, <1>2, <1>3 DEF StepsPrepared, NodeRuns, RewrittenSoFar, At, MovedSteps, Rewritten,
                          Preparing
<1>6. OldUntouched' /\ EnvKept'
  BY <1>1 DEF OldUntouched, EnvKept
<1>7. UserFilesKept'
  <2>1. CASE old = Absent
    BY <1>1, <2>1 DEF UserFilesKept
  <2>2. CASE old # Absent
    BY <1>1, <2>2 DEF UserFilesKept, OldUntouched
  <2>3. QED
    BY <2>1, <2>2
<1>8. SeedsFollow'
  BY <1>1 DEF SeedsFollow
<1>9. QED
  BY <1>4, <1>5, <1>6, <1>7, <1>8

LEMMA RenameConfigKeeps ==
    ASSUME UpgradeInv, RenameConfig
    PROVE  UpgradeInv'
<1> USE DEF UpgradeInv
<1>1. /\ script.pc = "rename" /\ UNCHANGED <<node, data, commander, user, cut>>
      /\ dir' = IF old = Absent THEN dir ELSE old
      /\ old' = Absent
  BY DEF RenameConfig, At
<1>2. /\ script' \in [pc : Steps, seen : SUBSET Keys, env : {"ark", Absent}, renames : BOOLEAN]
      /\ script'.pc = "data"
  BY GoesTo DEF RenameConfig, Steps, MovedSteps
<1>3. node.pc = "off" /\ data.old # Absent /\ data.new # Absent /\ dir' # Absent
  BY <1>1, NodeIsOff DEF StepsPrepared, Preparing, At
<1>4. UpgradeTypeOK'
  BY <1>1, <1>2, <1>3 DEF UpgradeTypeOK
<1>5. StepsPrepared' /\ NodeRuns' /\ RewrittenSoFar'
  BY <1>1, <1>2, <1>3 DEF StepsPrepared, NodeRuns, RewrittenSoFar, At, MovedSteps, Rewritten,
                          Preparing
<1>6. OldUntouched' /\ EnvKept'
  BY <1>1 DEF OldUntouched, EnvKept
<1>7. UserFilesKept'
  <2>1. CASE old = Absent
    BY <1>1, <2>1 DEF UserFilesKept
  <2>2. CASE old # Absent
    <3>1. \A f \in user.files : dir'[f] \notin {Absent, Torn}
      BY <1>1, <2>2 DEF OldUntouched
    <3>2. QED
      BY <1>1, <1>3, <3>1 DEF UserFilesKept
  <2>3. QED
    BY <2>1, <2>2
<1>8. SeedsFollow'
  BY <1>1, <1>3, UsersFollow DEF SeedsFollow, OldUntouched
<1>9. QED
  BY <1>4, <1>5, <1>6, <1>7, <1>8

LEMMA MoveDataKeeps ==
    ASSUME UpgradeInv, MoveData
    PROVE  UpgradeInv'
<1> USE DEF UpgradeInv
<1>1. /\ script.pc = "data" /\ UNCHANGED <<dir, node, old, commander, user, cut>>
      /\ data' = [old |-> Absent, new |-> data.old]
  BY DEF MoveData, At
<1>2. /\ script' \in [pc : Steps, seen : SUBSET Keys, env : {"ark", Absent}, renames : BOOLEAN]
      /\ script'.pc = "tidy"
  BY GoesTo DEF MoveData, Steps, MovedSteps
<1>3. node.pc = "off" /\ data.old # Absent /\ dir # Absent /\ old = Absent
  BY <1>1, NodeIsOff DEF StepsPrepared, Preparing, UpgradeTypeOK, MovedSteps
<1>4. UpgradeTypeOK'
  BY <1>1, <1>2, <1>3 DEF UpgradeTypeOK
<1>5. StepsPrepared' /\ NodeRuns' /\ RewrittenSoFar'
  BY <1>1, <1>2, <1>3 DEF StepsPrepared, NodeRuns, RewrittenSoFar, At, MovedSteps, Rewritten,
                          Preparing
<1>6. OldUntouched' /\ EnvKept'
  BY <1>1, <1>3 DEF OldUntouched, EnvKept
<1>7. UserFilesKept'
  <2>1. user.env = "ark" => data'.new # Absent /\ data'.new.env = "ark"
    BY <1>1, <1>3 DEF EnvKept
  <2>2. QED
    BY <1>1, <2>1 DEF UserFilesKept
<1>8. SeedsFollow'
  BY <1>1 DEF SeedsFollow
<1>9. QED
  BY <1>4, <1>5, <1>6, <1>7, <1>8

\* A file is written: with what it shall hold, or not to the end.
LEMMA PutWrites ==
    ASSUME UpgradeTypeOK, dir # Absent, NEW f \in Files, NEW content, NEW pc,
           IF f = "peers" THEN content \in Seq(Peers) ELSE content \in Forms,
           Put(f, content, pc)
    PROVE  /\ dir' \in Directories /\ dir' # Absent
           /\ \A g \in Files \ {f} : dir'[g] = dir[g]
           /\ \/ dir'[f] = content /\ To(pc) /\ cut' = cut
              \/ dir'[f] = Torn /\ To("ended") /\ cut' = cut \cup {f}
<1>1. dir \in Directories
  BY DEF UpgradeTypeOK
<1>2. ASSUME NEW c, c \in {content, Torn}, dir' = [dir EXCEPT ![f] = c]
      PROVE  /\ dir' \in Directories /\ dir' # Absent /\ dir'[f] = c
             /\ \A g \in Files \ {f} : dir'[g] = dir[g]
  <2>1. CASE f = "peers"
    <3>1. c \in Seq(Peers) \cup {Torn} /\ dir' = [dir EXCEPT !["peers"] = c]
      BY <1>2, <2>1
    <3>2. dir' \in Directories /\ dir'["peers"] = c /\ \A g \in Files \ {"peers"} : dir'[g] = dir[g]
      BY <1>1, <3>1 DEF Directories, Files
    <3>3. QED
      BY <2>1, <3>2, UpgradeAssumption
  <2>2. CASE f # "peers"
    <3>1. c \in {Torn} \cup Forms
      BY <1>2, <2>2
    <3>2. dir' \in Directories /\ dir'[f] = c /\ \A g \in Files \ {f} : dir'[g] = dir[g]
      BY <1>1, <1>2, <2>2, <3>1 DEF Directories, Files
    <3>3. QED
      BY <3>2, UpgradeAssumption
  <2>3. QED
    BY <2>1, <2>2
<1>3. \/ dir' = [dir EXCEPT ![f] = content] /\ To(pc) /\ cut' = cut
      \/ dir' = [dir EXCEPT ![f] = Torn] /\ To("ended") /\ cut' = cut \cup {f}
  BY Zenon DEF Put
<1>4. QED
  BY <1>2, <1>3

\* A step of the script that writes one file in the new directory
LEMMA PutKeeps ==
    ASSUME UpgradeInv, script.pc \in MovedSteps, NEW f \in Files, NEW content,
           NEW pc \in MovedSteps \ {"data"},
           IF f = "peers" THEN content \in Seq(Peers) ELSE content \in Forms,
           f = "peers" => "peers" \notin user.files,
           Put(f, content, pc), UNCHANGED <<node, old, data, commander, user>>, RewrittenSoFar'
    PROVE  UpgradeInv'
<1> USE DEF UpgradeInv
<1>1. dir # Absent /\ dir \in Directories /\ old = Absent /\ data.new # Absent
  BY DEF UpgradeTypeOK, StepsPrepared
<1>2. /\ dir' \in Directories /\ dir' # Absent
      /\ \A g \in Files \ {f} : dir'[g] = dir[g]
      /\ \/ dir'[f] = content /\ To(pc) /\ cut' = cut
         \/ dir'[f] = Torn /\ To("ended") /\ cut' = cut \cup {f}
  BY <1>1, PutWrites
<1>3. /\ script' \in [pc : Steps, seen : SUBSET Keys, env : {"ark", Absent}, renames : BOOLEAN]
      /\ script'.pc \in {pc, "ended"}
  <2>1. pc \in Steps /\ "ended" \in Steps
    BY DEF Steps
  <2>2. QED
    BY <1>2, <2>1, GoesTo
<1>4. node.pc = "off"
  BY NodeIsOff DEF MovedSteps, Rewritten
<1>5. script'.pc \in MovedSteps \/ script'.pc = "ended"
  BY <1>3
<1>6. cut' \subseteq Files
  BY <1>2 DEF UpgradeTypeOK
<1>7. UpgradeTypeOK'
  BY <1>1, <1>2, <1>3, <1>6 DEF UpgradeTypeOK
<1>8. StepsPrepared'
  BY <1>1, <1>2, <1>3, <1>5 DEF StepsPrepared, At, Preparing, MovedSteps, Rewritten
<1>9. NodeRuns' /\ OldUntouched' /\ EnvKept'
  BY <1>1, <1>4 DEF NodeRuns, OldUntouched, EnvKept
<1>10. UserFilesKept'
  <2>1. content \notin {Absent, Torn}
    BY UpgradeAssumption
  <2>2. ASSUME NEW g \in user.files
        PROVE  dir'[g] # Absent /\ (dir'[g] = Torn => g \in cut')
    <3>1. dir[g] # Absent /\ (dir[g] = Torn => g \in cut) /\ g \in Files
      BY <1>1, <1>4 DEF UserFilesKept, UpgradeTypeOK, Required, Files
    <3>2. CASE g = f
      BY <1>2, <2>1, <3>2, UpgradeAssumption, ConfigurationAssumption
    <3>3. CASE g # f
      BY <1>2, <3>1, <3>3
    <3>4. QED
      BY <3>2, <3>3
  <2>3. QED
    BY <1>2, <2>2 DEF UserFilesKept
<1>11. SeedsFollow'
  <2>1. "peers" \in Files
    BY DEF Files
  <2>2. CASE f = "peers"
    BY <1>4, <2>2 DEF SeedsFollow
  <2>3. CASE f # "peers"
    BY <1>1, <1>2, <1>4, <2>1, <2>3 DEF SeedsFollow
  <2>4. QED
    BY <2>2, <2>3
<1>12. QED
  BY <1>7, <1>8, <1>9, <1>10, <1>11

LEMMA CopyKeeps ==
    ASSUME UpgradeInv, NEW f \in Required, Copy(f)
    PROVE  UpgradeInv'
<1> DEFINE content == IF f = "peers" THEN <<>> ELSE "core"
<1>1. /\ script.pc = "copy" /\ dir[f] = Absent /\ f \in Files
      /\ Put(f, content, "copy") /\ UNCHANGED <<node, old, data, commander, user>>
  BY DEF Copy, At, Lacking, Required, Files
<1>2. IF f = "peers" THEN content \in Seq(Peers) ELSE content \in Forms
  BY EmptySeq DEF Forms
<1> HIDE DEF content
<1>3. script.pc \in MovedSteps /\ "copy" \in MovedSteps \ {"data"}
  BY <1>1 DEF MovedSteps
<1>4. f = "peers" => "peers" \notin user.files
  BY <1>1, <1>3 DEF UpgradeInv, StepsPrepared, UserFilesKept
<1>5. RewrittenSoFar'
  <2>1. script'.pc \in {"copy", "ended"}
    BY <1>1 DEF Put, To, UpgradeInv, UpgradeTypeOK
  <2>2. QED
    BY <2>1 DEF RewrittenSoFar, At
<1>6. QED
  BY <1>1, <1>2, <1>3, <1>4, <1>5, PutKeeps

LEMMA RewriteKeeps ==
    ASSUME UpgradeInv, NEW f \in DOMAIN Rewritten, Rewrite(f)
    PROVE  UpgradeInv'
<1>0. /\ f \in {"delegates", "env", "plugins"}
      /\ Rewritten[f] = IF f = "delegates" THEN "env"
                        ELSE IF f = "env" THEN "plugins" ELSE "validate"
  BY DEF Rewritten
<1>1. script.pc = f /\ UNCHANGED <<node, old, data, commander, user>>
  BY DEF Rewrite, At
<1>2. CASE To("ended") /\ UNCHANGED <<dir, cut>>
  <2>1. /\ script' \in [pc : Steps, seen : SUBSET Keys, env : {"ark", Absent}, renames : BOOLEAN]
        /\ script'.pc = "ended"
    BY <1>2, GoesTo DEF Steps, UpgradeInv
  <2>2. node.pc = "off"
    BY <1>0, <1>1, NodeIsOff
  <2>3. UpgradeTypeOK'
    BY <1>1, <1>2, <2>1 DEF UpgradeInv, UpgradeTypeOK, MovedSteps, Rewritten
  <2>4. StepsPrepared' /\ NodeRuns' /\ RewrittenSoFar'
    BY <1>1, <1>2, <2>1, <2>2 DEF StepsPrepared, NodeRuns, RewrittenSoFar, At, MovedSteps,
                                  Rewritten, Preparing
  <2>5. QED
    BY <1>1, <1>2, <2>3, <2>4, FilesStay DEF UpgradeInv
<1>3. CASE Put(f, "core", Rewritten[f])
  <2>1. /\ f \in Files /\ f # "peers" /\ "core" \in Forms /\ script.pc \in MovedSteps
        /\ Rewritten[f] \in MovedSteps \ {"data"}
    BY <1>0, <1>1 DEF Files, Forms, MovedSteps, Rewritten
  <2>2. RewrittenSoFar'
    <3>1. UpgradeTypeOK /\ dir # Absent /\ RewrittenSoFar
      BY <2>1 DEF UpgradeInv, UpgradeTypeOK
    <3>2. /\ \A g \in Files \ {f} : dir'[g] = dir[g]
          /\ \/ dir'[f] = "core" /\ To(Rewritten[f])
             \/ To("ended")
      BY <1>3, <2>1, <3>1, PutWrites
    <3>3. \/ dir'[f] = "core" /\ script'.pc = Rewritten[f]
          \/ script'.pc = "ended"
      BY <3>1, <3>2 DEF To, UpgradeTypeOK
    <3>4. f # "delegates" => dir'["delegates"] = dir["delegates"]
      BY <3>2 DEF Files
    <3>5. f # "env" => dir'["env"] = dir["env"]
      BY <3>2 DEF Files
    <3>6. QED
      BY <1>0, <1>1, <3>1, <3>3, <3>4, <3>5 DEF RewrittenSoFar, At
  <2>3. QED
    BY <1>1, <1>3, <2>1, <2>2, PutKeeps
<1>4. QED
  BY <1>2, <1>3 DEF Rewrite

LEMMA ValidateKeeps ==
    ASSUME UpgradeInv, Validate
    PROVE  UpgradeInv'
<1> USE DEF UpgradeInv
<1>1. script.pc = "validate" /\ UNCHANGED <<dir, node, data, commander, user, cut>>
  BY DEF Validate, At
<1>2. old = Absent /\ old' = old /\ node.pc = "off"
  BY <1>1, NodeIsOff DEF Validate, StepsPrepared, MovedSteps
<1>3. /\ script' \in [pc : Steps, seen : SUBSET Keys, env : {"ark", Absent}, renames : BOOLEAN]
      /\ \/ script'.pc = "ended"
         \/ script'.pc = "done" /\ dir.peers \notin {Absent, Torn}
  BY GoesTo DEF Validate, Steps, MovedSteps
<1>4. UpgradeTypeOK'
  BY <1>1, <1>2, <1>3 DEF UpgradeTypeOK, MovedSteps, Rewritten
<1>5. StepsPrepared' /\ NodeRuns' /\ RewrittenSoFar'
  BY <1>1, <1>2, <1>3 DEF StepsPrepared, NodeRuns, RewrittenSoFar, At, MovedSteps, Rewritten,
                          Preparing
<1>6. QED
  BY <1>1, <1>2, <1>4, <1>5, FilesStay

LEMMA RenameKeeps ==
    ASSUME UpgradeInv, Rename
    PROVE  UpgradeInv'
<1> USE DEF UpgradeInv
<1>1. /\ script.pc \in {"done", "ended"} /\ script' = Idle
      /\ UNCHANGED <<node, old, data, commander, user, cut>>
      /\ \/ dir' = dir
         \/ /\ dir # Absent
            /\ dir' = [dir EXCEPT !.env = IF @ = "ark" THEN "core" ELSE @,
                                  !.plugins = IF @ = "ark" THEN "renamed" ELSE @]
  BY DEF Rename
<1>2. node.pc = "off" /\ script'.pc = "idle"
  BY <1>1, NodeIsOff DEF Idle
<1>3. script' \in [pc : Steps, seen : SUBSET Keys, env : {"ark", Absent}, renames : BOOLEAN]
  BY <1>1 DEF Idle, Steps
<1>4. \/ dir' = dir
      \/ /\ dir # Absent /\ dir' \in Directories
         /\ \A g \in Files : dir'[g] = dir[g] \/ (dir[g] \notin {Absent, Torn}
                                                  /\ dir'[g] \notin {Absent, Torn})
         /\ dir'["peers"] = dir["peers"]
  <2>1. CASE dir # Absent /\ dir' = [dir EXCEPT !.env = IF @ = "ark" THEN "core" ELSE @,
                                               !.plugins = IF @ = "ark" THEN "renamed" ELSE @]
    <3> DEFINE e == IF dir["env"] = "ark" THEN "core" ELSE dir["env"]
               p == IF dir["plugins"] = "ark" THEN "renamed" ELSE dir["plugins"]
    <3>1. dir \in Directories
      BY <2>1 DEF UpgradeTypeOK
    <3>2. dir' = [dir EXCEPT !["env"] = e, !["plugins"] = p]
      BY <2>1, <3>1 DEF Directories, Files
    <3>3. e \in Forms \cup {Absent, Torn} /\ p \in Forms \cup {Absent, Torn}
      BY <3>1 DEF Directories, Files, Forms
    <3>4. e = dir["env"] \/ (dir["env"] = "ark" /\ e = "core")
      OBVIOUS
    <3>5. p = dir["plugins"] \/ (dir["plugins"] = "ark" /\ p = "renamed")
      OBVIOUS
    <3> HIDE DEF e, p
    <3>6. /\ dir' \in Directories /\ dir'["peers"] = dir["peers"]
          /\ dir'["delegates"] = dir["delegates"] /\ dir'["env"] = e /\ dir'["plugins"] = p
      BY <3>1, <3>2, <3>3 DEF Directories, Files
    <3>7. {"ark", "core", "renamed"} \cap {Absent, Torn} = {}
      BY UpgradeAssumption DEF Forms
    <3>8. QED
      BY <2>1, <3>4, <3>5, <3>6, <3>7 DEF Files
  <2>2. QED
    BY <1>1, <2>1
<1>5. dir' \in Directories \cup {Absent} /\ (dir # Absent => dir' # Absent)
  BY <1>4, UpgradeAssumption DEF UpgradeTypeOK
<1>6. UpgradeTypeOK'
  BY <1>1, <1>2, <1>3, <1>5 DEF UpgradeTypeOK, MovedSteps, Rewritten
<1>7. StepsPrepared' /\ NodeRuns' /\ RewrittenSoFar'
  BY <1>1, <1>2 DEF StepsPrepared, NodeRuns, RewrittenSoFar, At, MovedSteps, Rewritten, Preparing
<1>8. OldUntouched' /\ EnvKept'
  BY <1>1 DEF OldUntouched, EnvKept
<1>9. UserFilesKept'
  <2>1. ASSUME NEW f \in user.files
        PROVE  \E d \in {old, dir'} \ {Absent} : d[f] # Absent /\ (d[f] = Torn => f \in cut)
    <3>1. PICK d \in {old, dir} \ {Absent} : d[f] # Absent /\ (d[f] = Torn => f \in cut)
      BY <1>2 DEF UserFilesKept
    <3>2. CASE d = old
      BY <3>1, <3>2
    <3>3. CASE d = dir
      <4>1. dir' # Absent /\ f \in Files
        BY <1>5, <3>1, <3>3 DEF UpgradeTypeOK, Required, Files
      <4>2. dir'[f] # Absent /\ (dir'[f] = Torn => f \in cut)
        BY <1>4, <3>1, <3>3, <4>1
      <4>3. QED
        BY <4>1, <4>2
    <3>4. QED
      BY <3>1, <3>2, <3>3
  <2>2. QED
    BY <1>1, <2>1 DEF UserFilesKept
<1>10. SeedsFollow'
  <2>1. dir' # Absent => dir # Absent /\ dir'["peers"] = dir["peers"]
    BY <1>4, UpgradeAssumption
  <2>2. QED
    BY <1>1, <1>2, <2>1 DEF SeedsFollow
<1>11. QED
  BY <1>6, <1>7, <1>8, <1>9, <1>10

---------------------------------------------------------------------------------
(* The node between runs of the script *)

LEMMA SeedsLoaded ==
    ASSUME UpgradeTypeOK, Reads(dir)
    PROVE  dir # Absent /\ dir.peers \in Seq(Peers)
BY DEF Reads, UpgradeTypeOK, Directories

\* What every step of the node leaves as it is
LEMMA NodeKeepsScript ==
    ASSUME UpgradeInv, Node, UpgradeTypeOK', dir # Absent => dir' # Absent,
           node'.pc # "off" => dir' # Absent
    PROVE  StepsPrepared' /\ NodeRuns' /\ OldUntouched' /\ EnvKept' /\ RewrittenSoFar'
<1>1. script.pc = "idle" /\ UNCHANGED <<old, data, commander, script, user>>
  BY DEF Node, At
<1>2. StepsPrepared' /\ NodeRuns' /\ RewrittenSoFar'
  BY <1>1 DEF StepsPrepared, NodeRuns, RewrittenSoFar, At, MovedSteps, Rewritten, Preparing
<1>3. OldUntouched' /\ EnvKept'
  BY <1>1 DEF UpgradeInv, OldUntouched, EnvKept
<1>4. QED
  BY <1>2, <1>3

\* A start that dies while it writes the seeds cuts them short, and no other does.
LEMMA NodeCuts ==
    ASSUME UpgradeInv, Node
    PROVE  /\ cut \subseteq cut' /\ cut' \subseteq Files
           /\ Stop /\ node.pc = "writing" => "peers" \in cut'
<1>1. cut' = IF Stop /\ node.pc = "writing" THEN cut \cup {"peers"} ELSE cut
  BY DEF Node
<1>2. cut \subseteq Files /\ "peers" \in Files
  BY DEF UpgradeInv, UpgradeTypeOK, Files
<1>3. QED
  BY <1>1, <1>2

LEMMA NodeTypes ==
    ASSUME UpgradeInv, Node,
           dir' \in Directories \cup {Absent},
           node' \in Nodes
    PROVE  UpgradeTypeOK'
<1>1. script.pc = "idle" /\ UNCHANGED <<old, data, commander, script, user>>
  BY DEF Node, At
<1>2. QED
  BY <1>1, NodeCuts DEF UpgradeInv, UpgradeTypeOK, MovedSteps, Rewritten

\* A step of the node that leaves the seeds' file alone, or puts one there that holds
\* a list or is being written
LEMMA NodeKeepsFiles ==
    ASSUME UpgradeInv, Node, dir' \in Directories, dir # Absent => dir \in Directories,
           dir = Absent => \A f \in Files : dir'[f] = Absent,
           dir # Absent => \A f \in Files \ {"peers"} : dir'[f] = dir[f],
           dir # Absent => \/ dir'["peers"] = dir["peers"]
                              /\ (node.pc = "writing" => Stop)
                           \/ dir'["peers"] = Torn /\ node'.pc = "writing"
                           \/ dir'["peers"] \in Seq(Peers)
    PROVE  UserFilesKept'
<1>1. UNCHANGED <<old, data, user>>
  BY DEF Node
<1>2. cut \subseteq cut' /\ (Stop /\ node.pc = "writing" => "peers" \in cut')
  BY NodeCuts
<1>3. dir' # Absent
  BY UpgradeAssumption
<1>4. ASSUME NEW f \in user.files
      PROVE  \E d \in {old, dir'} \ {Absent} :
                d[f] # Absent /\ (d[f] = Torn => f \in cut' \/ (f = "peers" /\ node'.pc = "writing"))
  <2>1. PICK d \in {old, dir} \ {Absent} :
            d[f] # Absent /\ (d[f] = Torn => f \in cut \/ (f = "peers" /\ node.pc = "writing"))
    BY DEF UpgradeInv, UserFilesKept
  <2>2. f \in Files
    BY DEF UpgradeInv, UpgradeTypeOK, Required, Files
  <2>3. CASE old # Absent
    BY <1>1, <2>3 DEF UpgradeInv, OldUntouched
  <2>4. CASE old = Absent
    <3>1. dir # Absent /\ d = dir
      BY <2>1, <2>4
    <3>2. CASE f # "peers"
      <4>1. dir'[f] = dir[f]
        BY <2>2, <3>1, <3>2
      <4>2. dir'[f] # Absent /\ (dir'[f] = Torn => f \in cut')
        BY <1>2, <2>1, <3>1, <3>2, <4>1
      <4>3. QED
        BY <1>3, <4>2
    <3>3. CASE f = "peers"
      <4>1. dir'[f] # Absent
        BY <2>1, <3>1, <3>3, UpgradeAssumption, ConfigurationAssumption
      <4>2. dir'[f] = Torn => f \in cut' \/ node'.pc = "writing"
        BY <1>2, <2>1, <3>1, <3>3, UpgradeAssumption
      <4>3. QED
        BY <1>3, <3>3, <4>1, <4>2
    <3>4. QED
      BY <3>2, <3>3
  <2>5. QED
    BY <2>3, <2>4
<1>5. QED
  BY <1>1, <1>4 DEF UpgradeInv, UserFilesKept

LEMMA NodeKeeps ==
    ASSUME UpgradeInv, Node
    PROVE  UpgradeInv'
<1> USE DEF UpgradeInv
<1>1. script.pc = "idle" /\ UNCHANGED <<old, data, commander, script, user>> /\ NodeNext
  BY DEF Node, At
<1>2. /\ node.list \in Seq(Peers) /\ user.list \in Seq(Peers)
      /\ dir # Absent => dir \in Directories
      /\ node \in Nodes
  BY DEF UpgradeTypeOK, OldUntouched, Nodes
<1>3. ASSUME NEW network \in Networks, Load(network)
      PROVE  UpgradeInv'
  <2>1. /\ node' = [pc |-> "fetching", env |-> dir.env, plugins |-> dir.plugins,
                    delegates |-> dir.delegates, list |-> dir.peers]
        /\ node.pc = "off" /\ dir' = dir
    BY <1>3 DEF Load
  <2>2. dir # Absent /\ dir.peers \in Seq(Peers) /\ dir.peers \notin {Absent, Torn}
    BY <1>3, SeedsLoaded DEF Load, Reads
  <2>3. UpgradeTypeOK'
    BY <1>2, <2>1, <2>2, NodeTypes DEF Directories, Files, Nodes
  <2>4. SeedsFollow'
    BY <1>1, <2>1, <2>2 DEF SeedsFollow
  <2>5. UserFilesKept'
    BY <1>2, <2>1, <2>2, NodeKeepsFiles
  <2>6. QED
    BY <2>1, <2>2, <2>3, <2>4, <2>5, NodeKeepsScript
<1>4. CASE LoadFails
  <2>1. node' = node /\ node.pc = "off" /\ dir' = IF dir = Absent THEN NoDirectory ELSE dir
    BY <1>4 DEF LoadFails
  <2>2. dir' \in Directories /\ dir' # Absent /\ \A f \in Files : NoDirectory[f] = Absent
    BY <1>2, <2>1, NoDirectoryIsOne DEF NoDirectory
  <2>3. UpgradeTypeOK'
    BY <1>2, <2>1, <2>2, NodeTypes
  <2>4. SeedsFollow'
    BY <1>1, <2>1, <2>2, NodeCuts, ConfigurationAssumption DEF SeedsFollow, Files
  <2>5. UserFilesKept'
    BY <1>2, <2>1, <2>2, NodeKeepsFiles
  <2>6. QED
    BY <2>1, <2>2, <2>3, <2>4, <2>5, NodeKeepsScript
<1>5. CASE NothingFetched \/ Stop
  <2>1. /\ node.pc # "off" /\ dir' = dir
        /\ \/ node.pc = "fetching" /\ node' = [node EXCEPT !.pc = "up"]
           \/ node' = Off
        /\ node.pc = "writing" => Stop
    BY <1>5 DEF NothingFetched, Stop, Validated
  <2>2. dir # Absent /\ dir \in Directories
    BY <1>2, <2>1 DEF NodeRuns
  <2>3. /\ node' \in Nodes
        /\ \/ node'.pc = "up" /\ node'.list = node.list /\ node.pc = "fetching"
           \/ node'.pc = "off"
    <3>1. CASE node.pc = "fetching" /\ node' = [node EXCEPT !.pc = "up"]
      BY <1>2, <3>1 DEF Nodes
    <3>2. CASE node' = Off
      BY <3>2, EmptySeq DEF Off, Nodes
    <3>3. QED
      BY <2>1, <3>1, <3>2
  <2>4. UpgradeTypeOK'
    BY <2>1, <2>2, <2>3, NodeTypes
  <2>5. SeedsFollow'
    BY <1>1, <2>1, <2>3, NodeCuts DEF SeedsFollow
  <2>6. UserFilesKept'
    BY <2>1, <2>2, <2>3, NodeKeepsFiles
  <2>7. QED
    BY <2>1, <2>2, <2>4, <2>5, <2>6, NodeKeepsScript
<1>6. ASSUME NEW fetched \in Fetched, Fetch(fetched)
      PROVE  UpgradeInv'
  <2>1. /\ node.pc = "fetching"
        /\ node' = [node EXCEPT !.pc = "writing", !.list = Merge(node.list, fetched)]
        /\ dir' = [dir EXCEPT !["peers"] = Torn]
    BY <1>6 DEF Fetch
  <2>2. dir # Absent /\ dir \in Directories
    BY <1>2, <2>1 DEF NodeRuns
  <2>3. /\ dir' \in Directories /\ dir' # Absent
        /\ \A g \in Files : dir'[g] = IF g = "peers" THEN Torn ELSE dir[g]
    <3>1. dir' \in Directories /\ \A g \in Files : dir'[g] = IF g = "peers" THEN Torn ELSE dir[g]
      BY <2>1, <2>2 DEF Directories, Files
    <3>2. QED
      BY <3>1, UpgradeAssumption
  <2>4. /\ Merge(node.list, fetched) \in Seq(Peers)
        /\ Follows(node.list, user.list) => Follows(Merge(node.list, fetched), user.list)
    BY <1>2, MergeFollows, ConfigurationAssumption
  <2>5. /\ node' \in Nodes
        /\ node'.pc = "writing" /\ node'.list = Merge(node.list, fetched)
    BY <1>2, <2>1, <2>4 DEF Nodes
  <2>6. UpgradeTypeOK'
    BY <2>3, <2>5, NodeTypes
  <2>7. SeedsFollow'
    BY <1>1, <2>1, <2>3, <2>4, <2>5 DEF SeedsFollow, Files
  <2>8. UserFilesKept'
    BY <2>2, <2>3, <2>5, NodeKeepsFiles DEF Files
  <2>9. QED
    BY <2>2, <2>3, <2>6, <2>7, <2>8, NodeKeepsScript
<1>7. CASE WritePeers
  <2>1. /\ node.pc = "writing" /\ node' \in {[node EXCEPT !.pc = "up"], Off}
        /\ dir' = [dir EXCEPT !["peers"] = node.list]
    BY <1>7 DEF WritePeers, Validated
  <2>2. dir # Absent /\ dir \in Directories
    BY <1>2, <2>1 DEF NodeRuns
  <2>3. /\ dir' \in Directories /\ dir' # Absent
        /\ \A g \in Files : dir'[g] = IF g = "peers" THEN node.list ELSE dir[g]
    <3>1. /\ dir' \in Directories
          /\ \A g \in Files : dir'[g] = IF g = "peers" THEN node.list ELSE dir[g]
      BY <1>2, <2>1, <2>2 DEF Directories, Files
    <3>2. QED
      BY <3>1, UpgradeAssumption
  <2>4. /\ node' \in Nodes
        /\ node'.pc = "off" \/ (node'.pc = "up" /\ node'.list = node.list)
    <3>1. CASE node' = [node EXCEPT !.pc = "up"]
      BY <1>2, <3>1 DEF Nodes
    <3>2. CASE node' = Off
      BY <3>2, EmptySeq DEF Off, Nodes
    <3>3. QED
      BY <2>1, <3>1, <3>2
  <2>5. UpgradeTypeOK'
    BY <2>3, <2>4, NodeTypes
  <2>6. SeedsFollow'
    <3>1. dir'.peers = node.list /\ node.list # Torn
      BY <1>2, <2>3, UpgradeAssumption DEF Files
    <3>2. QED
      BY <1>1, <2>1, <2>4, <3>1 DEF SeedsFollow
  <2>7. UserFilesKept'
    BY <1>2, <2>2, <2>3, <2>4, NodeKeepsFiles DEF Files
  <2>8. QED
    BY <2>2, <2>3, <2>5, <2>6, <2>7, NodeKeepsScript
<1>8. QED
  BY <1>1, <1>3, <1>4, <1>5, <1>6, <1>7 DEF NodeNext

---------------------------------------------------------------------------------

LEMMA UpgradeStep == UpgradeInv /\ [UpgradeNext]_vars => UpgradeInv'
<1> SUFFICES ASSUME UpgradeInv, [UpgradeNext]_vars
             PROVE  UpgradeInv'
  OBVIOUS
<1>1. CASE UNCHANGED vars
  <2>1. UNCHANGED <<dir, node, old, data, commander, script, user, cut>>
    BY <1>1 DEF vars
  <2>2. UpgradeTypeOK' /\ StepsPrepared' /\ NodeRuns' /\ RewrittenSoFar'
    BY <2>1 DEF UpgradeInv, UpgradeTypeOK, StepsPrepared, NodeRuns, RewrittenSoFar, At
  <2>3. QED
    BY <2>1, <2>2, FilesStay DEF UpgradeInv
<1>2. CASE Begin
  BY <1>2, BeginKeeps
<1>3. CASE (\E key \in Keys : AppendKey(key)) \/ WriteCommander
  BY <1>3, CommanderKeeps
<1>4. CASE ReadEnv \/ Tidy \/ CopiedAll \/ Die
  BY <1>4, LooksOnlyKeeps
<1>5. CASE EnsureDirs \/ RemoveConfig \/ RenameConfig \/ MoveData
  BY <1>5, EnsureDirsKeeps, RemoveConfigKeeps, RenameConfigKeeps, MoveDataKeeps
<1>6. CASE (\E f \in Required : Copy(f)) \/ (\E f \in DOMAIN Rewritten : Rewrite(f)) \/ Validate
  BY <1>6, CopyKeeps, RewriteKeeps, ValidateKeeps
<1>7. CASE Rename \/ Node
  BY <1>7, RenameKeeps, NodeKeeps
<1>8. QED
  BY <1>1, <1>2, <1>3, <1>4, <1>5, <1>6, <1>7 DEF UpgradeNext

\* At whatever step the script dies, however often it is run again and whatever the
\* node does in between: files are typed and directories there where steps need them,
\* the user's files and .env are in one of the two places, a script that comes to its
\* end leaves what version 2 starts from, and the user's seeds stay first, in their
\* order, with each fetched one once behind them.
THEOREM UpgradeSafe ==
    UpgradeSpec => [](UpgradeTypeOK /\ UserFilesKept /\ DoneIsComplete /\ PeersKept)
<1>1. UpgradeInv => UpgradeTypeOK /\ UserFilesKept
  BY DEF UpgradeInv
<1>2. UpgradeInv => DoneIsComplete
  <2> SUFFICES ASSUME UpgradeInv, At("done") PROVE DoneIsComplete
    BY DEF DoneIsComplete
  <2>1. /\ dir # Absent /\ dir.delegates = "core" /\ dir.env = "core" /\ dir.plugins = "core"
        /\ dir.peers \notin {Absent, Torn}
    BY DEF UpgradeInv, UpgradeTypeOK, RewrittenSoFar, At, MovedSteps
  <2>2. "core" \notin {Absent, Torn}
    BY UpgradeAssumption DEF Forms
  <2>3. QED
    BY <2>1, <2>2 DEF DoneIsComplete, Loads, Reads, Accepts
<1>3. UpgradeInv => PeersKept
  <2> SUFFICES ASSUME UpgradeInv, "peers" \in user.files, dir # Absent,
                      dir.peers \notin {Absent, Torn}
               PROVE  /\ IsPrefix(user.list, dir.peers)
                      /\ \A i \in Len(user.list) + 1 .. Len(dir.peers) :
                            ~Contains(SubSeq(dir.peers, 1, i - 1), dir.peers[i])
    <3>1. UpgradeInv /\ "peers" \in user.files /\ dir # Absent =>
              /\ dir.peers = Absent => old # Absent
              /\ dir.peers = Torn => "peers" \in cut \/ node.pc = "writing"
      BY DEF UpgradeInv, UserFilesKept, SeedsFollow
    <3>2. QED
      BY <3>1 DEF PeersKept
  <2>1. Follows(dir.peers, user.list) /\ user.list \in Seq(Peers)
    BY DEF UpgradeInv, SeedsFollow, OldUntouched
  <2>2. dir.peers \in Seq(Peers)
    BY DEF UpgradeInv, UpgradeTypeOK, Directories
  <2>3. QED
    BY <2>1, <2>2, FollowsKeeps
<1>4. QED
  BY <1>1, <1>2, <1>3, Begins, UpgradeStep, PTL DEF UpgradeSpec
==================================================================================
