------------------------------ MODULE ContainerProofs ----------------------------
(***********************************************************************************)
(* Proofs about Container for any plugins, configuration, options and faults.      *)
(***********************************************************************************)
EXTENDS Container, SequenceTheorems, TLAPS

\* The plugin, if there is one, has been registered, has failed or cannot register.
Handled(q) == q \in registry \cup failed \cup {None} \cup (Plugins \ Registrable)

\* A call that has called itself is about to go on when the inner call is over, and
\* knows by then that what its plugin builds upon is handled.
CallsNested ==
    \A i \in DOMAIN stack :
        LET p == stack[i].plugin
            at == stack[i].at
            HandledBy(q) == Handled(q) \/ (i > 1 /\ stack[i - 1].plugin = q)
        IN  /\ i > 1 => at \in {"depends", "register"}
            /\ at = "depends" => HandledBy(Extends[p])
            /\ at = "register" => Handled(Extends[p]) /\ HandledBy(Depends[p])
            /\ at = "registering" => p \notin registry /\ Handled(Extends[p]) /\ Handled(Depends[p])

\* What the loop of setUp has passed is handled, but for the plugin it is at.
LoopHandles ==
    \A i \in 1..next - 1 :
        ShouldBeRegistered(Listed[i]) =>
            \/ Handled(Listed[i]) \/ rejected
            \/ i = next - 1 /\ stack # <<>> /\ stack[Len(stack)].plugin = Listed[i]

RequiredNeverFail == failed \cap Required \cap Loadable = {}

\* Only a container that is set up is torn down, and one that shuts down before is
\* never set up.
Staged ==
    /\ isReady \/ (\E t \in TearDowns : tearing[t] # 0) => stage = "done"
    /\ shuttingDown /\ stage # "done" => ~Running \/ rejected

\* The array is in the order of registration until a tear down reverses it; what
\* that one has torn down is the part of the array before its index.
ArrayOrdered ==
    /\ (\A t \in TearDowns : tearing[t] = 0) =>
          /\ torn = <<>>
          /\ \A i, j \in DOMAIN deregister : i < j => RegisteredBefore(deregister[i], deregister[j])
    /\ \A t \in TearDowns : tearing[t] # 0 /\ (\A u \in TearDowns \ {t} : tearing[u] = 0) =>
          /\ \A i, j \in DOMAIN deregister : i < j => RegisteredBefore(deregister[j], deregister[i])
          /\ Len(torn) <= Len(deregister)
          /\ \A i \in DOMAIN torn : torn[i] = deregister[i]
          /\ tearing[t] \in DOMAIN deregister => Len(torn) = tearing[t]

\* The tear down of SIGINT is the last to reverse the array: it has called all the
\* plugins up to its index, and exits when that has passed the last one.
ExitCovers ==
    /\ tearing["exit"] # 0 => shuttingDown
    /\ tearing["exit"] \in Nat =>
          \A j \in DOMAIN deregister : j <= tearing["exit"] => deregister[j] \in ToSet(torn)
    /\ exitCode = 0 /\ tearing["exit"] # 0 => tearing["exit"] = Len(deregister) + 1

ContainerInv ==
    /\ ContainerTypeOK /\ CallsNested /\ LoopHandles /\ RequiredNeverFail /\ Staged
    /\ RegisteredOnce /\ BasesFirst /\ ReadyIsComplete /\ ArrayOrdered /\ ExitCovers

---------------------------------------------------------------------------------
(* Sequences *)

LEMMA ReverseTurns ==
    ASSUME NEW S, NEW s \in Seq(S)
    PROVE  /\ Reverse(s) \in Seq(S) /\ Len(Reverse(s)) = Len(s)
           /\ \A i \in 1..Len(s) : Reverse(s)[i] = s[Len(s) - i + 1]
BY DEF Reverse

LEMMA LastIsLast ==
    ASSUME NEW S, NEW s \in Seq(S), s # <<>>
    PROVE  Last(s) = s[Len(s)] /\ Len(s) \in Nat \ {0}
BY DEF Last

\* A frame on top of a stack, or in the place of the top one
LEMMA PushIsPushed ==
    ASSUME NEW S, NEW s \in Seq(S), NEW e \in S
    PROVE  /\ <<e>> \o s \in Seq(S) /\ Len(<<e>> \o s) = Len(s) + 1
           /\ (<<e>> \o s)[1] = e
           /\ \A i \in 1..Len(s) : (<<e>> \o s)[i + 1] = s[i]
BY ConcatProperties

LEMMA ReplaceReplaces ==
    ASSUME NEW S, NEW s \in Seq(S), s # <<>>, NEW e \in S
    PROVE  /\ <<e>> \o Tail(s) \in Seq(S) /\ Len(<<e>> \o Tail(s)) = Len(s)
           /\ (<<e>> \o Tail(s))[1] = e
           /\ \A i \in 2..Len(s) : (<<e>> \o Tail(s))[i] = s[i]
<1>1. /\ Tail(s) \in Seq(S) /\ Len(Tail(s)) = Len(s) - 1
      /\ \A i \in 1..Len(Tail(s)) : Tail(s)[i] = s[i + 1]
  BY HeadTailProperties
<1>2. /\ <<e>> \o Tail(s) \in Seq(S) /\ Len(<<e>> \o Tail(s)) = Len(Tail(s)) + 1
      /\ (<<e>> \o Tail(s))[1] = e
      /\ \A i \in 1..Len(Tail(s)) : (<<e>> \o Tail(s))[i + 1] = Tail(s)[i]
  BY <1>1, PushIsPushed
<1>3. Len(s) \in Nat
  OBVIOUS
<1>4. ASSUME NEW i \in 2..Len(s) PROVE (<<e>> \o Tail(s))[i] = s[i]
  <2>1. i - 1 \in 1..Len(Tail(s)) /\ (i - 1) + 1 = i
    BY <1>1, <1>3
  <2>2. QED
    BY <1>1, <1>2, <2>1
<1>5. QED
  BY <1>1, <1>2, <1>3, <1>4

---------------------------------------------------------------------------------
(* The calls of registerWithContainer *)

LEMMA StackIsTyped ==
    ASSUME ContainerTypeOK, stack # <<>>
    PROVE  /\ stack \in Seq(Frame) /\ Len(stack) \in Nat \ {0}
           /\ stack[1] \in Frame /\ Head(stack) = stack[1]
           /\ stack[1].plugin \in Plugins
           /\ DOMAIN stack = 1..Len(stack)
<1>1. stack \in Seq(Frame)
  BY DEF ContainerTypeOK, RegistrarTypeOK
<1>2. Len(stack) \in Nat \ {0} /\ DOMAIN stack = 1..Len(stack)
  BY <1>1, EmptySeq, LenProperties
<1>3. stack[1] \in Frame
  BY <1>1, <1>2, ElementOfSeq
<1>4. Head(stack) = stack[1]
  BY <1>1
<1>5. QED
  BY <1>1, <1>2, <1>3, <1>4 DEF Frame

LEMMA HandledGrows ==
    ASSUME registry \subseteq registry', failed \subseteq failed'
    PROVE  \A q : Handled(q) => Handled(q)'
BY DEF Handled

\* A call that is over leaves its plugin handled, for the one that called it and,
\* if there is none, for the loop of setUp.
LEMMA ReturnKeepsCalls ==
    ASSUME ContainerTypeOK, CallsNested, LoopHandles, stack # <<>>, Returns,
           registry \subseteq registry', failed \subseteq failed',
           NEW last \in Plugins, last = Head(stack).plugin, Handled(last)',
           next' = next, rejected => rejected'
    PROVE  stack' \in Seq(Frame) /\ CallsNested' /\ LoopHandles'
<1>1. /\ stack' \in Seq(Frame) /\ Len(stack') = Len(stack) - 1 /\ Len(stack) \in Nat
      /\ \A i \in 1..Len(stack') : stack'[i] = stack[i + 1]
      /\ DOMAIN stack' = 1..Len(stack') /\ DOMAIN stack = 1..Len(stack)
  BY StackIsTyped, HeadTailProperties DEF Returns
<1>2. last = stack[1].plugin
  BY StackIsTyped
<1>3. CallsNested'
  <2>1. ASSUME NEW i \in DOMAIN stack', NEW p, p = stack'[i].plugin, NEW at, at = stack'[i].at
        PROVE  LET HandledBy(q) == Handled(q)' \/ (i > 1 /\ stack'[i - 1].plugin = q)
               IN  /\ i > 1 => at \in {"depends", "register"}
                   /\ at = "depends" => HandledBy(Extends[p])
                   /\ at = "register" => Handled(Extends[p])' /\ HandledBy(Depends[p])
                   /\ at = "registering" =>
                         p \notin registry' /\ Handled(Extends[p])' /\ Handled(Depends[p])'
    <3>1. i + 1 \in DOMAIN stack /\ i + 1 > 1 /\ (i + 1) - 1 = i
          /\ p = stack[i + 1].plugin /\ at = stack[i + 1].at
      BY <1>1, <2>1
    <3>2. at \in {"depends", "register"}
      BY <3>1 DEF CallsNested
    <3>3. \A q : Handled(q) \/ stack[i].plugin = q =>
                     Handled(q)' \/ (i > 1 /\ stack'[i - 1].plugin = q)
      <4>1. CASE i = 1
        BY <1>2, <4>1, HandledGrows
      <4>2. CASE i > 1
        <5>1. i - 1 \in 1..Len(stack') /\ (i - 1) + 1 = i
          BY <1>1, <4>2
        <5>2. QED
          BY <1>1, <4>2, <5>1, HandledGrows
      <4>3. QED
        BY <1>1, <4>1, <4>2
    <3>4. /\ at = "depends" => Handled(Extends[p]) \/ stack[i].plugin = Extends[p]
          /\ at = "register" =>
                Handled(Extends[p]) /\ (Handled(Depends[p]) \/ stack[i].plugin = Depends[p])
      BY <3>1 DEF CallsNested
    <3>5. QED
      BY <3>1, <3>2, <3>3, <3>4, HandledGrows
  <2>2. QED
    BY <2>1 DEF CallsNested, Handled
<1>4. LoopHandles'
  <2>1. ASSUME NEW i \in 1..next - 1, ShouldBeRegistered(Listed[i])
        PROVE  \/ Handled(Listed[i])' \/ rejected'
               \/ i = next - 1 /\ stack' # <<>> /\ stack'[Len(stack')].plugin = Listed[i]
    <3>1. CASE Handled(Listed[i]) \/ rejected
      BY <3>1, HandledGrows
    <3>2. CASE i = next - 1 /\ stack[Len(stack)].plugin = Listed[i]
      <4>1. CASE Len(stack) = 1
        BY <1>2, <3>2, <4>1
      <4>2. CASE Len(stack) > 1
        <5>1. /\ Len(stack') \in 1..Len(stack') /\ Len(stack') + 1 = Len(stack)
              /\ stack' # <<>>
          BY <1>1, <4>2
        <5>2. QED
          BY <1>1, <3>2, <5>1
      <4>3. QED
        BY <4>1, <4>2, StackIsTyped
    <3>3. QED
      BY <2>1, <3>1, <3>2 DEF LoopHandles
  <2>2. QED
    BY <2>1 DEF LoopHandles, ShouldBeRegistered
<1>5. QED
  BY <1>1, <1>3, <1>4

\* A call that goes on, and calls itself for what its plugin builds upon
LEMMA GoOnKeepsCalls ==
    ASSUME ContainerTypeOK, CallsNested, LoopHandles, RequiredNeverFail, stack # <<>>,
           NEW p \in Plugins, p = Head(stack).plugin,
           NEW at \in {"depends", "register"}, NEW q \in Plugins \cup {None}, GoOn(at, q),
           at = "depends" => q = Extends[p],
           at = "register" => Handled(Extends[p]) /\ (Handled(Depends[p]) \/ q = Depends[p]),
           UNCHANGED <<next, registry, rejected>>
    PROVE  /\ stack' \in Seq(Frame) /\ failed' \subseteq Plugins
           /\ CallsNested' /\ LoopHandles' /\ RequiredNeverFail' /\ failed \subseteq failed'
<1> DEFINE frame == [Head(stack) EXCEPT !.at = at]
           rest == <<frame>> \o Tail(stack)
           called == [plugin |-> q, at |-> "extends"]
<1>0. failed \subseteq Plugins
  BY DEF ContainerTypeOK, RegistrarTypeOK
<1>1. /\ stack \in Seq(Frame) /\ Len(stack) \in Nat \ {0} /\ Head(stack) \in Frame
      /\ DOMAIN stack = 1..Len(stack) /\ stack[1] = Head(stack)
  BY StackIsTyped
<1>2. frame \in Frame /\ frame.at = at /\ frame.plugin = p
  BY <1>1 DEF Frame
<1>3. \/ q = None /\ stack' = rest /\ UNCHANGED failed
      \/ /\ q # None
         /\ stack' = IF q \in Loadable \cap Registrable THEN <<called>> \o rest ELSE rest
         /\ failed' = IF q \in Loadable THEN failed ELSE failed \cup {q}
  BY DEF GoOn, Enter
<1> HIDE DEF frame
<1>4. /\ rest \in Seq(Frame) /\ Len(rest) = Len(stack) /\ rest[1] = frame
      /\ \A i \in 2..Len(stack) : rest[i] = stack[i]
  BY <1>1, <1>2, ReplaceReplaces
<1> HIDE DEF rest, called
<1>5. /\ failed \subseteq failed' /\ failed' \subseteq Plugins /\ RequiredNeverFail'
      /\ registry' = registry
  BY <1>0, <1>3 DEF RequiredNeverFail
<1>6. \A x : Handled(x) => Handled(x)'
  BY <1>5, HandledGrows
\* whatever is below the top of the stack knows what it knew
<1>7. ASSUME NEW i \in 2..Len(stack), NEW b \in Plugins, b = rest[i].plugin, NEW pc, pc = rest[i].at
      PROVE  LET HandledBy(x) == Handled(x)' \/ rest[i - 1].plugin = x
             IN  /\ pc \in {"depends", "register"}
                 /\ pc = "depends" => HandledBy(Extends[b])
                 /\ pc = "register" => Handled(Extends[b])' /\ HandledBy(Depends[b])
  <2>1. i \in DOMAIN stack /\ i > 1 /\ b = stack[i].plugin /\ pc = stack[i].at
    BY <1>1, <1>4, <1>7
  <2>2. rest[i - 1].plugin = stack[i - 1].plugin
    <3>1. CASE i = 2
      BY <1>1, <1>2, <1>4, <3>1
    <3>2. CASE i > 2
      BY <1>4, <3>2
    <3>3. QED
      BY <3>1, <3>2
  <2>3. /\ pc \in {"depends", "register"}
        /\ pc = "depends" => Handled(Extends[b]) \/ stack[i - 1].plugin = Extends[b]
        /\ pc = "register" =>
              Handled(Extends[b]) /\ (Handled(Depends[b]) \/ stack[i - 1].plugin = Depends[b])
    BY <2>1 DEF CallsNested
  <2>4. QED
    BY <1>6, <2>2, <2>3
<1>8. \A i \in 1..Len(rest) : rest[i].plugin \in Plugins
  <2>1. \A i \in 1..Len(rest) : rest[i] \in Frame
    BY <1>4, ElementOfSeq
  <2>2. QED
    BY <2>1 DEF Frame
<1>9. CASE q \in Loadable \cap Registrable /\ q # None
  <2>1. /\ stack' = <<called>> \o rest
        /\ called \in Frame /\ called.plugin = q /\ called.at = "extends"
    BY <1>3, <1>9 DEF called, Frame
  <2>2. /\ stack' \in Seq(Frame) /\ Len(stack') = Len(rest) + 1 /\ stack'[1] = called
        /\ \A i \in 1..Len(rest) : stack'[i + 1] = rest[i]
    BY <1>4, <2>1, PushIsPushed
  <2>3. CallsNested'
    <3>1. ASSUME NEW i \in DOMAIN stack', NEW b, b = stack'[i].plugin, NEW pc, pc = stack'[i].at
          PROVE  LET HandledBy(x) == Handled(x)' \/ (i > 1 /\ stack'[i - 1].plugin = x)
                 IN  /\ i > 1 => pc \in {"depends", "register"}
                     /\ pc = "depends" => HandledBy(Extends[b])
                     /\ pc = "register" => Handled(Extends[b])' /\ HandledBy(Depends[b])
                     /\ pc = "registering" =>
                           b \notin registry' /\ Handled(Extends[b])' /\ Handled(Depends[b])'
      <4>1. i \in 1..Len(rest) + 1
        BY <2>2
      <4>2. CASE i = 1
        BY <2>1, <2>2, <3>1, <4>2
      <4>3. CASE i = 2
        <5>1. b = p /\ pc = at /\ stack'[i - 1].plugin = q
          BY <1>1, <1>2, <1>4, <2>1, <2>2, <3>1, <4>3
        <5>2. QED
          BY <1>6, <4>3, <5>1
      <4>4. CASE i > 2
        <5>1. PICK k \in 2..Len(rest) : i = k + 1
          <6>1. Len(rest) \in Nat
            BY <1>1, <1>4
          <6>2. i - 1 \in 2..Len(rest) /\ i = (i - 1) + 1
            BY <4>1, <4>4, <6>1
          <6>3. QED
            BY <6>2
        <5>2. k \in 1..Len(rest) /\ k - 1 \in 1..Len(rest) /\ (k - 1) + 1 = i - 1
              /\ k \in 2..Len(stack)
          BY <1>4, <5>1
        <5>3. b = rest[k].plugin /\ pc = rest[k].at /\ stack'[i - 1] = rest[k - 1]
          BY <2>2, <3>1, <5>1, <5>2
        <5>4. b \in Plugins
          BY <1>8, <5>2, <5>3
        <5>5. LET HandledBy(x) == Handled(x)' \/ rest[k - 1].plugin = x
              IN  /\ pc \in {"depends", "register"}
                  /\ pc = "depends" => HandledBy(Extends[b])
                  /\ pc = "register" => Handled(Extends[b])' /\ HandledBy(Depends[b])
          BY <1>7, <5>2, <5>3, <5>4
        <5>6. i > 1 /\ stack'[i - 1].plugin = rest[k - 1].plugin
          BY <5>1, <5>3
        <5>7. QED
          BY <5>5, <5>6
      <4>5. QED
        BY <4>1, <4>2, <4>3, <4>4
    <3>2. QED
      BY <3>1 DEF CallsNested, Handled
  <2>4. stack' # <<>> /\ stack'[Len(stack')].plugin = stack[Len(stack)].plugin
    <3>1. stack'[Len(stack')] = rest[Len(rest)]
      BY <1>1, <1>4, <2>2
    <3>2. rest[Len(rest)].plugin = stack[Len(stack)].plugin
      BY <1>1, <1>2, <1>4
    <3>3. QED
      BY <1>4, <2>2, <3>1, <3>2
  <2>5. LoopHandles'
    BY <1>6, <2>4 DEF LoopHandles, ShouldBeRegistered, Handled
  <2>6. QED
    BY <1>5, <2>2, <2>3, <2>5
<1>10. CASE ~(q \in Loadable \cap Registrable /\ q # None)
  <2>1. stack' = rest
    BY <1>3, <1>10
  <2>2. Handled(q)'
    BY <1>3, <1>10 DEF Handled
  <2>3. CallsNested'
    <3>1. ASSUME NEW i \in DOMAIN stack', NEW b, b = stack'[i].plugin, NEW pc, pc = stack'[i].at
          PROVE  LET HandledBy(x) == Handled(x)' \/ (i > 1 /\ stack'[i - 1].plugin = x)
                 IN  /\ i > 1 => pc \in {"depends", "register"}
                     /\ pc = "depends" => HandledBy(Extends[b])
                     /\ pc = "register" => Handled(Extends[b])' /\ HandledBy(Depends[b])
                     /\ pc = "registering" =>
                           b \notin registry' /\ Handled(Extends[b])' /\ Handled(Depends[b])'
      <4>1. i \in 1..Len(rest)
        BY <1>4, <2>1
      <4>2. CASE i = 1
        <5>1. b = p /\ pc = at
          BY <1>2, <1>4, <2>1, <3>1, <4>2
        <5>2. QED
          BY <1>6, <2>2, <4>2, <5>1
      <4>3. CASE i > 1
        <5>1. i \in 2..Len(stack) /\ b \in Plugins
          BY <1>4, <1>8, <2>1, <3>1, <4>1, <4>3
        <5>2. QED
          BY <1>7, <2>1, <3>1, <4>3, <5>1
      <4>4. QED
        BY <4>1, <4>2, <4>3
    <3>2. QED
      BY <3>1 DEF CallsNested, Handled
  <2>4. stack' # <<>> /\ stack'[Len(stack')].plugin = stack[Len(stack)].plugin
    BY <1>1, <1>2, <1>4, <2>1
  <2>5. LoopHandles'
    BY <1>6, <2>4 DEF LoopHandles, ShouldBeRegistered, Handled
  <2>6. QED
    BY <1>4, <1>5, <2>1, <2>3, <2>5
<1>11. QED
  BY <1>9, <1>10

---------------------------------------------------------------------------------
(* The operations of setUp *)

LEMMA NobodyTearsDown ==
    ASSUME Staged, stage = "plugins"
    PROVE  (\A t \in TearDowns : tearing[t] = 0) /\ ~isReady /\ tearing["exit"] = 0
BY ContainerAssumption DEF Staged

\* A step that leaves registry and arrays alone keeps the invariants about them.
LEMMA ArraysKept ==
    ASSUME ContainerInv, failed \subseteq failed',
           UNCHANGED <<registry, deregister, order, tearing, torn>>
    PROVE  RegisteredOnce' /\ BasesFirst' /\ ArrayOrdered'
<1> USE DEF ContainerInv
<1>1. RegisteredOnce'
  BY DEF RegisteredOnce
<1>2. BasesFirst'
  BY DEF BasesFirst
<1>3. ArrayOrdered'
  BY DEF ArrayOrdered, RegisteredBefore
<1>4. QED
  BY <1>1, <1>2, <1>3

LEMMA NextPluginKeeps ==
    ASSUME ContainerInv, stage = "plugins", NextPlugin, UNCHANGED <<stage, isReady>>
    PROVE  ContainerInv'
<1> USE DEF ContainerInv
<1> DEFINE p == Listed[next]
           called == [plugin |-> p, at |-> "extends"]
<1>0. /\ next \in 1..Len(Listed) /\ Listed \in Seq(Plugins) /\ p \in Plugins
      /\ next' = next + 1 /\ Len(Listed) \in Nat
  BY RegistrarAssumption DEF NextPlugin, LoopEnds, ContainerTypeOK, RegistrarTypeOK
<1>1. /\ stack = <<>> /\ ~rejected
      /\ UNCHANGED <<registry, deregister, order, tearing, torn, stage, isReady>>
      /\ UNCHANGED <<shuttingDown, exitCode, rejected>>
  BY DEF NextPlugin, processVars
<1>2. \/ ~ShouldBeRegistered(p) /\ UNCHANGED <<stack, failed>>
      \/ /\ ShouldBeRegistered(p)
         /\ stack' = IF p \in Loadable \cap Registrable THEN <<called>> \o <<>> ELSE <<>>
         /\ failed' = IF p \in Loadable THEN failed ELSE failed \cup {p}
  BY DEF NextPlugin, Enter
<1>3. failed \subseteq failed' /\ failed' \subseteq Plugins /\ RequiredNeverFail'
  BY <1>0, <1>2 DEF RequiredNeverFail, ContainerTypeOK, RegistrarTypeOK
<1>4. called \in Frame
  BY <1>0 DEF Frame
<1>5. \/ stack' = <<>> /\ (ShouldBeRegistered(p) => p \in failed' \/ p \in Plugins \ Registrable)
      \/ stack' = <<called>>
  BY <1>0, <1>1, <1>2
<1> HIDE DEF called
<1>6. stack' \in Seq(Frame)
  <2>1. <<called>> \in Seq(Frame)
    BY <1>4
  <2>2. QED
    BY <1>5, <2>1, EmptySeq
<1> USE DEF called
<1>7. CallsNested'
  BY <1>5 DEF CallsNested
<1>8. LoopHandles'
  <2>1. ASSUME NEW i \in 1..next, ShouldBeRegistered(Listed[i])
        PROVE  \/ Listed[i] \in registry \cup failed' \cup {None} \cup (Plugins \ Registrable)
               \/ i = next /\ stack' # <<>> /\ stack'[Len(stack')].plugin = Listed[i]
    <3>1. CASE i = next
      BY <1>5, <2>1, <3>1
    <3>2. CASE i # next
      <4>1. i \in 1..next - 1
        BY <1>0, <3>2
      <4>2. Handled(Listed[i])
        BY <1>1, <2>1, <4>1 DEF LoopHandles
      <4>3. QED
        BY <1>3, <4>2 DEF Handled
    <3>3. QED
      BY <3>1, <3>2
  <2>2. QED
    BY <1>0, <1>1, <2>1 DEF LoopHandles, Handled, ShouldBeRegistered
<1>9. ContainerTypeOK'
  BY <1>0, <1>1, <1>3, <1>6 DEF ContainerTypeOK, RegistrarTypeOK
<1>10. RegisteredOnce' /\ BasesFirst' /\ ArrayOrdered'
  BY <1>1, <1>3, ArraysKept
<1>11. ReadyIsComplete' /\ Staged' /\ ExitCovers'
  BY <1>1, NobodyTearsDown DEF ReadyIsComplete, Staged, ExitCovers, Running
<1>12. QED
  BY <1>3, <1>7, <1>8, <1>9, <1>10, <1>11

LEMMA GoOnKeeps ==
    ASSUME ContainerInv, stage = "plugins", CallExtended \/ CallDepended,
           UNCHANGED <<stage, isReady>>
    PROVE  ContainerInv'
<1> USE DEF ContainerInv
<1>0. stack # <<>>
  BY DEF CallExtended, CallDepended, AtFrame
<1>1. PICK p \in Plugins : p = Head(stack).plugin
  BY <1>0, StackIsTyped
<1>2. /\ UNCHANGED <<next, registry, deregister, order, tearing, torn, stage, isReady>>
      /\ UNCHANGED <<shuttingDown, exitCode, rejected>>
  BY DEF CallExtended, CallDepended, processVars
<1>3. {Extends[p], Depends[p]} \subseteq Plugins \cup {None}
  BY RegistrarAssumption
<1>4. Head(stack) = stack[1] /\ 1 \in DOMAIN stack /\ DOMAIN stack = 1..Len(stack)
  BY <1>0, StackIsTyped
<1>5. /\ stack' \in Seq(Frame) /\ failed' \subseteq Plugins
      /\ CallsNested' /\ LoopHandles' /\ RequiredNeverFail' /\ failed \subseteq failed'
  <2>1. CASE CallExtended
    <3>1. GoOn("depends", Extends[p])
      BY <1>1, <2>1 DEF CallExtended
    <3>2. QED
      BY <1>0, <1>1, <1>2, <1>3, <3>1, GoOnKeepsCalls
  <2>2. CASE CallDepended
    <3>1. Head(stack).at = "depends"
      BY <2>2 DEF CallDepended, AtFrame
    <3>2. Handled(Extends[p])
      BY <1>1, <1>4, <3>1 DEF CallsNested
    <3>3. PICK q \in Plugins \cup {None} :
              GoOn("register", q) /\ (Handled(Depends[p]) \/ q = Depends[p])
      <4>1. GoOn("register", IF Depends[p] \in failed THEN None ELSE Depends[p])
        BY <1>1, <2>2 DEF CallDepended
      <4>2. CASE Depends[p] \in failed
        BY <4>1, <4>2 DEF Handled
      <4>3. CASE Depends[p] \notin failed
        BY <1>3, <4>1, <4>3
      <4>4. QED
        BY <4>2, <4>3
    <3>4. QED
      BY <1>0, <1>1, <1>2, <3>2, <3>3, GoOnKeepsCalls
  <2>3. QED
    BY <2>1, <2>2
<1>6. ContainerTypeOK'
  BY <1>2, <1>5 DEF ContainerTypeOK, RegistrarTypeOK
<1>7. RegisteredOnce' /\ BasesFirst' /\ ArrayOrdered'
  BY <1>2, <1>5, ArraysKept
<1>8. ReadyIsComplete' /\ Staged' /\ ExitCovers'
  BY <1>2, NobodyTearsDown DEF ReadyIsComplete, Staged, ExitCovers, Running
<1>9. QED
  BY <1>5, <1>6, <1>7, <1>8

\* forceExit ends the process or rejects setUp: no plugin is registered any more.
LEMMA ForceExitKeeps ==
    ASSUME ContainerInv,
           ForceExit \/ (shuttingDown' = TRUE /\ exitCode' = 1 /\ UNCHANGED <<stack, rejected>>),
           isReady' = isReady,
           stage' = stage \/ (stage = "new" /\ stage' = "configuring"),
           UNCHANGED <<next, registry, failed, deregister, order, tearing, torn>>
    PROVE  ContainerInv'
<1> USE DEF ContainerInv
<1>1. /\ shuttingDown' = TRUE
      /\ \/ exitCode' = 1 /\ UNCHANGED <<stack, rejected>>
         \/ stack' = <<>> /\ rejected' = TRUE /\ exitCode' = exitCode
  BY DEF ForceExit, Throws
<1>2. CallsNested' /\ LoopHandles'
  <2>1. CASE UNCHANGED <<stack, rejected>>
    BY <2>1 DEF CallsNested, LoopHandles, Handled, ShouldBeRegistered
  <2>2. CASE stack' = <<>> /\ rejected'
    BY <2>2 DEF CallsNested, LoopHandles
  <2>3. QED
    BY <1>1, <2>1, <2>2
<1>3. ContainerTypeOK'
  <2>1. stack' \in Seq(Frame)
    BY <1>1, EmptySeq DEF ContainerTypeOK, RegistrarTypeOK
  <2>2. exitCode' \in {None, 0, 1} /\ rejected' \in BOOLEAN
    BY <1>1 DEF ContainerTypeOK, RegistrarTypeOK
  <2>3. QED
    BY <1>1, <2>1, <2>2 DEF ContainerTypeOK, RegistrarTypeOK
<1>4. RegisteredOnce' /\ BasesFirst' /\ ArrayOrdered'
  BY ArraysKept
<1>5. Staged'
  BY <1>1, RegistrarAssumption DEF Staged, Running
<1>6. ExitCovers'
  BY <1>1 DEF ExitCovers
<1>7. RequiredNeverFail' /\ ReadyIsComplete'
  BY DEF RequiredNeverFail, ReadyIsComplete
<1>8. QED
  BY <1>2, <1>3, <1>4, <1>5, <1>6, <1>7

LEMMA CallRegisterKeeps ==
    ASSUME ContainerInv, stage = "plugins", CallRegister, UNCHANGED <<stage, isReady>>
    PROVE  ContainerInv'
<1> USE DEF ContainerInv
<1>0. stack # <<>> /\ Head(stack).at = "register"
  BY DEF CallRegister, AtFrame
<1>1. PICK p \in Plugins : p = Head(stack).plugin
  BY <1>0, StackIsTyped
<1>2. /\ UNCHANGED <<next, registry, failed, deregister, order, tearing, torn, stage, isReady>>
      /\ UNCHANGED <<shuttingDown, exitCode>>
      /\ \/ p \in registry /\ Returns /\ UNCHANGED rejected
         \/ stack' = <<>> /\ rejected' = TRUE
         \/ /\ p \notin registry
            /\ stack' = [stack EXCEPT ![1].at = "registering"]
            /\ UNCHANGED rejected
  BY <1>1 DEF CallRegister, Throws
<1>3. /\ stack \in Seq(Frame) /\ Len(stack) \in Nat \ {0} /\ stack[1] \in Frame
      /\ DOMAIN stack = 1..Len(stack) /\ stack[1] = Head(stack)
  BY <1>0, StackIsTyped
<1>4. stack' \in Seq(Frame) /\ CallsNested' /\ LoopHandles'
  <2>1. CASE p \in registry /\ Returns /\ UNCHANGED rejected
    <3>1. Handled(p)'
      BY <1>2, <2>1 DEF Handled
    <3>2. QED
      BY <1>0, <1>1, <1>2, <2>1, <3>1, ReturnKeepsCalls
  <2>2. CASE stack' = <<>> /\ rejected' = TRUE
    BY <2>2 DEF CallsNested, LoopHandles
  <2>3. CASE p \notin registry /\ stack' = [stack EXCEPT ![1].at = "registering"]
             /\ UNCHANGED rejected
    <3> DEFINE frame == [stack[1] EXCEPT !.at = "registering"]
    <3>1. frame \in Frame /\ frame.plugin = p /\ frame.at = "registering"
      BY <1>1, <1>3 DEF Frame
    <3>2. stack' = [stack EXCEPT ![1] = frame]
      BY <2>3
    <3> HIDE DEF frame
    <3>3. /\ stack' \in Seq(Frame) /\ Len(stack') = Len(stack) /\ DOMAIN stack' = DOMAIN stack
          /\ stack'[1] = frame /\ \A i \in 2..Len(stack) : stack'[i] = stack[i]
      BY <1>3, <3>1, <3>2
    <3>4. \A i \in DOMAIN stack : stack'[i].plugin = stack[i].plugin
      BY <1>1, <1>3, <3>1, <3>3
    <3>5. Handled(Extends[p]) /\ Handled(Depends[p])
      BY <1>0, <1>1, <1>3 DEF CallsNested
    <3>6. CallsNested'
      <4>1. ASSUME NEW i \in DOMAIN stack, NEW b, b = stack'[i].plugin, NEW pc, pc = stack'[i].at
            PROVE  LET HandledBy(x) == Handled(x) \/ (i > 1 /\ stack'[i - 1].plugin = x)
                   IN  /\ i > 1 => pc \in {"depends", "register"}
                       /\ pc = "depends" => HandledBy(Extends[b])
                       /\ pc = "register" => Handled(Extends[b]) /\ HandledBy(Depends[b])
                       /\ pc = "registering" =>
                             b \notin registry /\ Handled(Extends[b]) /\ Handled(Depends[b])
        <5>1. CASE i = 1
          <6>1. b = p /\ pc = "registering"
            BY <3>1, <3>3, <4>1, <5>1
          <6>2. b \notin registry /\ Handled(Extends[b]) /\ Handled(Depends[b])
            BY <2>3, <3>5, <6>1
          <6>3. QED
            BY <5>1, <6>1, <6>2
        <5>2. CASE i > 1
          <6>1. i \in 2..Len(stack) /\ i - 1 \in DOMAIN stack
            BY <1>3, <5>2
          <6>2. /\ b = stack[i].plugin /\ pc = stack[i].at
                /\ stack'[i - 1].plugin = stack[i - 1].plugin
            BY <3>3, <3>4, <4>1, <6>1
          <6>3. QED
            BY <5>2, <6>2 DEF CallsNested
        <5>3. QED
          BY <1>3, <5>1, <5>2
      <4>2. QED
        BY <1>2, <3>3, <4>1 DEF CallsNested, Handled
    <3>7. stack' # <<>> /\ stack'[Len(stack')].plugin = stack[Len(stack)].plugin
      BY <1>3, <3>3, <3>4
    <3>8. LoopHandles'
      BY <1>2, <2>3, <3>7 DEF LoopHandles, ShouldBeRegistered, Handled
    <3>9. QED
      BY <3>3, <3>6, <3>8
  <2>4. QED
    BY <1>2, <2>1, <2>2, <2>3
<1>5. ContainerTypeOK'
  <2>1. rejected' \in BOOLEAN
    BY <1>2 DEF ContainerTypeOK, RegistrarTypeOK
  <2>2. QED
    BY <1>2, <1>4, <2>1 DEF ContainerTypeOK, RegistrarTypeOK
<1>6. RegisteredOnce' /\ BasesFirst' /\ ArrayOrdered'
  BY <1>2, ArraysKept
<1>7. RequiredNeverFail' /\ ReadyIsComplete' /\ ExitCovers'
  BY <1>2 DEF RequiredNeverFail, ReadyIsComplete, ExitCovers
<1>8. Staged'
  BY <1>2 DEF Staged, Running
<1>9. QED
  BY <1>4, <1>5, <1>6, <1>7, <1>8

LEMMA RegisterRejectsKeeps ==
    ASSUME ContainerInv, stage = "plugins", RegisterRejects, UNCHANGED <<stage, isReady>>
    PROVE  ContainerInv'
<1> USE DEF ContainerInv
<1>0. stack # <<>> /\ UNCHANGED <<next, registry, deregister, order, tearing, torn>>
  BY DEF RegisterRejects, AtFrame
<1>1. PICK p \in Plugins : p = Head(stack).plugin
  BY <1>0, StackIsTyped
<1>2. CASE p \in Required /\ ForceExit /\ UNCHANGED failed
  BY <1>0, <1>2, ForceExitKeeps
<1>3. CASE p \notin Required /\ failed' = failed \cup {p} /\ Returns /\ UNCHANGED processVars
  <2>1. UNCHANGED <<shuttingDown, exitCode, rejected>>
    BY <1>3 DEF processVars
  <2>2. Handled(p)'
    BY <1>3 DEF Handled
  <2>3. stack' \in Seq(Frame) /\ CallsNested' /\ LoopHandles'
    BY <1>0, <1>1, <1>3, <2>1, <2>2, ReturnKeepsCalls
  <2>4. ContainerTypeOK'
    BY <1>0, <1>3, <2>1, <2>3 DEF ContainerTypeOK, RegistrarTypeOK
  <2>5. RegisteredOnce' /\ BasesFirst' /\ ArrayOrdered'
    BY <1>0, <1>3, ArraysKept
  <2>6. RequiredNeverFail' /\ ReadyIsComplete' /\ ExitCovers'
    BY <1>0, <1>3, <2>1 DEF RequiredNeverFail, ReadyIsComplete, ExitCovers
  <2>7. Staged'
    BY <1>0, <2>1 DEF Staged, Running
  <2>8. QED
    BY <2>3, <2>4, <2>5, <2>6, <2>7
<1>4. QED
  BY <1>1, <1>2, <1>3 DEF RegisterRejects

\* A plugin that is registered is the last one of both arrays, once in each.
LEMMA ArraysGrow ==
    ASSUME ContainerInv, NEW p \in Plugins, p \notin registry,
           Handled(Extends[p]), Handled(Depends[p]),
           \A t \in TearDowns : tearing[t] = 0,
           registry' = registry \cup {p}, order' = Append(order, p),
           deregister' = IF p \in Deregistrable THEN Append(deregister, p) ELSE deregister,
           UNCHANGED <<failed, tearing, torn>>
    PROVE  /\ order' \in Seq(registry') /\ deregister' \in Seq(Deregistrable)
           /\ Len(deregister') \in {Len(deregister), Len(deregister) + 1}
           /\ RegisteredOnce' /\ BasesFirst' /\ ArrayOrdered'
<1> USE DEF ContainerInv
<1>0. order \in Seq(registry) /\ deregister \in Seq(Deregistrable)
  BY DEF ContainerTypeOK, RegistrarTypeOK
<1>1. PICK n \in Nat : n = Len(order) /\ DOMAIN order = 1..n
  BY <1>0, LenProperties
<1>2. /\ order' \in Seq(registry')
      /\ DOMAIN order' = 1..n + 1
      /\ \A i \in 1..n : order'[i] = order[i]
      /\ order'[n + 1] = p
  <2>1. order \in Seq(registry')
    BY <1>0, SeqMonotonic
  <2>2. QED
    BY <1>1, <2>1, AppendProperties, LenProperties
<1>3. PICK m \in Nat : m = Len(deregister) /\ DOMAIN deregister = 1..m
  BY <1>0, LenProperties
<1>4. /\ deregister' \in Seq(Deregistrable) /\ Len(deregister') \in {m, m + 1}
      /\ \A i \in 1..m : i \in DOMAIN deregister' /\ deregister'[i] = deregister[i]
      /\ \A i \in DOMAIN deregister' :
             i \in 1..m \/ (i = m + 1 /\ p \in Deregistrable /\ deregister'[i] = p)
      /\ p \in Deregistrable => m + 1 \in DOMAIN deregister' /\ deregister'[m + 1] = p
  <2>1. CASE p \in Deregistrable
    <3>1. deregister' = Append(deregister, p)
      BY <2>1
    <3>2. /\ deregister' \in Seq(Deregistrable) /\ Len(deregister') = m + 1
          /\ \A i \in 1..m : deregister'[i] = deregister[i]
          /\ deregister'[m + 1] = p
      BY <1>0, <1>3, <2>1, <3>1, AppendProperties
    <3>3. DOMAIN deregister' = 1..m + 1
      BY <3>2, LenProperties
    <3>4. \A i \in 1..m + 1 : i \in 1..m \/ i = m + 1
      OBVIOUS
    <3>5. QED
      BY <2>1, <3>2, <3>3, <3>4
  <2>2. CASE p \notin Deregistrable
    BY <1>0, <1>3, <2>2
  <2>3. QED
    BY <2>1, <2>2
<1>5. ToSet(order) = registry /\ ToSet(deregister) = registry \cap Deregistrable
      /\ \A i, j \in DOMAIN order : order[i] = order[j] => i = j
  BY DEF RegisteredOnce
<1>6. RegisteredOnce'
  <2>1. ASSUME NEW i \in DOMAIN order', NEW j \in DOMAIN order', order'[i] = order'[j]
        PROVE  i = j
    <3>1. \A k \in DOMAIN order' : k \in DOMAIN order \/ k = n + 1
      BY <1>1, <1>2
    <3>2. \A k \in DOMAIN order : order'[k] = order[k] /\ order[k] # p
      BY <1>1, <1>2, <1>5 DEF ToSet
    <3>3. CASE i \in DOMAIN order /\ j \in DOMAIN order
      BY <1>5, <2>1, <3>2, <3>3
    <3>4. CASE i = n + 1 \/ j = n + 1
      BY <1>2, <2>1, <3>1, <3>2, <3>4
    <3>5. QED
      BY <3>1, <3>3, <3>4
  <2>2. ToSet(order') = registry'
    <3>1. ToSet(order') \subseteq registry'
      BY <1>2, ElementOfSeq DEF ToSet
    <3>2. ASSUME NEW q \in registry PROVE q \in ToSet(order')
      <4>1. PICK i \in DOMAIN order : order[i] = q
        BY <1>5 DEF ToSet
      <4>2. i \in DOMAIN order' /\ order'[i] = q
        BY <1>1, <1>2, <4>1
      <4>3. QED
        BY <4>2 DEF ToSet
    <3>3. p \in ToSet(order')
      <4>1. n + 1 \in DOMAIN order' /\ order'[n + 1] = p
        BY <1>2
      <4>2. QED
        BY <4>1 DEF ToSet
    <3>4. QED
      BY <3>1, <3>2, <3>3
  <2>3. ToSet(deregister') = registry' \cap Deregistrable
    <3>1. ASSUME NEW i \in DOMAIN deregister'
          PROVE  deregister'[i] \in registry' \cap Deregistrable
      <4>1. CASE i \in DOMAIN deregister
        BY <1>4, <1>5, <4>1 DEF ToSet
      <4>2. CASE i \notin DOMAIN deregister
        <5>1. p \in Deregistrable /\ deregister'[i] = p
          BY <1>3, <1>4, <4>2
        <5>2. QED
          BY <5>1
      <4>3. QED
        BY <4>1, <4>2
    <3>2. ASSUME NEW q \in registry \cap Deregistrable PROVE q \in ToSet(deregister')
      <4>1. PICK i \in DOMAIN deregister : deregister[i] = q
        BY <1>5 DEF ToSet
      <4>2. i \in DOMAIN deregister' /\ deregister'[i] = q
        BY <1>3, <1>4, <4>1
      <4>3. QED
        BY <4>2 DEF ToSet
    <3>3. p \in Deregistrable => p \in ToSet(deregister')
      BY <1>4 DEF ToSet
    <3>4. QED
      BY <3>1, <3>2, <3>3 DEF ToSet
  <2>4. QED
    BY <2>1, <2>2, <2>3 DEF RegisteredOnce
<1>7. BasesFirst'
  <2>1. ASSUME NEW i \in DOMAIN order'
        PROVE  {Extends[order'[i]], Depends[order'[i]]}
                   \subseteq {order'[j] : j \in 1..i - 1} \cup failed \cup {None}
                             \cup (Plugins \ Registrable)
    <3>1. CASE i \in DOMAIN order
      <4>1. {Extends[order[i]], Depends[order[i]]}
                \subseteq {order[j] : j \in 1..i - 1} \cup failed \cup {None}
                          \cup (Plugins \ Registrable)
        BY <3>1 DEF BasesFirst
      <4>2. \A j \in 1..i - 1 : order'[j] = order[j]
        BY <1>1, <1>2, <3>1
      <4>3. {order[j] : j \in 1..i - 1} = {order'[j] : j \in 1..i - 1}
        BY <4>2
      <4>4. order'[i] = order[i]
        BY <1>2, <3>1
      <4>5. QED
        BY <4>1, <4>3, <4>4
    <3>2. CASE i \notin DOMAIN order
      <4>1. i = n + 1 /\ order'[i] = p
        BY <1>1, <1>2, <3>2
      <4>2. registry \subseteq {order'[j] : j \in 1..i - 1}
        <5>1. ASSUME NEW q \in registry PROVE \E j \in 1..i - 1 : order'[j] = q
          <6>1. PICK j \in DOMAIN order : order[j] = q
            BY <1>5 DEF ToSet
          <6>2. j \in 1..i - 1 /\ order'[j] = q
            BY <1>1, <1>2, <4>1, <6>1
          <6>3. QED
            BY <6>2
        <5>2. QED
          BY <5>1
      <4>3. QED
        BY <4>1, <4>2 DEF Handled
    <3>3. QED
      BY <3>1, <3>2
  <2>2. QED
    BY <2>1 DEF BasesFirst
<1>8. ArrayOrdered'
  <2>1. ASSUME NEW i \in DOMAIN deregister', NEW j \in DOMAIN deregister', i < j
        PROVE  \E k, l \in DOMAIN order' :
                   k < l /\ order'[k] = deregister'[i] /\ order'[l] = deregister'[j]
    <3>1. i \in DOMAIN deregister /\ deregister'[i] = deregister[i]
      <4>1. i # m + 1
        BY <1>3, <1>4, <2>1
      <4>2. QED
        BY <1>3, <1>4, <2>1, <4>1
    <3>2. CASE j \in DOMAIN deregister
      <4>1. deregister'[j] = deregister[j]
        BY <1>3, <1>4, <3>2
      <4>2. RegisteredBefore(deregister[i], deregister[j])
        BY <2>1, <3>1, <3>2 DEF ArrayOrdered
      <4>3. PICK k \in DOMAIN order, l \in DOMAIN order :
                k < l /\ order[k] = deregister[i] /\ order[l] = deregister[j]
        BY <4>2 DEF RegisteredBefore
      <4>4. /\ k \in DOMAIN order' /\ order'[k] = order[k]
            /\ l \in DOMAIN order' /\ order'[l] = order[l]
        BY <1>1, <1>2
      <4>5. order'[k] = deregister'[i] /\ order'[l] = deregister'[j]
        BY <3>1, <4>1, <4>3, <4>4
      <4>6. QED
        BY <4>3, <4>4, <4>5
    <3>3. CASE j \notin DOMAIN deregister
      <4>1. deregister'[j] = p
        BY <1>3, <1>4, <2>1, <3>3
      <4>2. deregister[i] \in registry
        BY <1>5, <3>1 DEF ToSet
      <4>3. PICK k \in DOMAIN order : order[k] = deregister[i]
        BY <1>5, <4>2 DEF ToSet
      <4>4. /\ k \in DOMAIN order' /\ order'[k] = deregister'[i]
            /\ n + 1 \in DOMAIN order' /\ order'[n + 1] = deregister'[j]
            /\ k < n + 1
        BY <1>1, <1>2, <3>1, <4>1, <4>3
      <4>5. QED
        BY <4>4
    <3>4. QED
      BY <3>2, <3>3
  <2>2. torn = <<>>
    BY DEF ArrayOrdered
  <2>3. \A i, j \in DOMAIN deregister' : i < j => RegisteredBefore(deregister[i], deregister[j])'
    BY <2>1 DEF RegisteredBefore
  <2>4. \A t \in TearDowns : tearing'[t] = 0
    OBVIOUS
  <2>5. QED
    BY <2>2, <2>3, <2>4 DEF ArrayOrdered
<1>9. QED
  BY <1>2, <1>3, <1>4, <1>6, <1>7, <1>8

LEMMA RegisterResolvesKeeps ==
    ASSUME ContainerInv, stage = "plugins", RegisterResolves, UNCHANGED <<stage, isReady>>
    PROVE  ContainerInv'
<1> USE DEF ContainerInv
<1>0. stack # <<>> /\ Head(stack).at = "registering"
  BY DEF RegisterResolves, AtFrame
<1>1. PICK p \in Plugins : p = Head(stack).plugin
  BY <1>0, StackIsTyped
<1>2. /\ registry' = registry \cup {p} /\ order' = Append(order, p)
      /\ deregister' = IF p \in Deregistrable THEN Append(deregister, p) ELSE deregister
      /\ Returns /\ UNCHANGED <<next, failed, tearing, torn, shuttingDown, exitCode, rejected>>
  BY <1>1 DEF RegisterResolves, processVars
<1>3. p \notin registry /\ Handled(Extends[p]) /\ Handled(Depends[p])
  <2>1. 1 \in DOMAIN stack /\ stack[1] = Head(stack)
    BY <1>0, StackIsTyped
  <2>2. QED
    BY <1>0, <1>1, <2>1 DEF CallsNested
<1>4. (\A t \in TearDowns : tearing[t] = 0) /\ ~isReady /\ tearing["exit"] = 0
  BY NobodyTearsDown
<1>5. /\ order' \in Seq(registry') /\ deregister' \in Seq(Deregistrable)
      /\ Len(deregister') \in {Len(deregister), Len(deregister) + 1}
      /\ RegisteredOnce' /\ BasesFirst' /\ ArrayOrdered'
  BY <1>2, <1>3, <1>4, ArraysGrow
<1>6. stack' \in Seq(Frame) /\ CallsNested' /\ LoopHandles'
  <2>1. Handled(p)'
    BY <1>2 DEF Handled
  <2>2. QED
    BY <1>0, <1>1, <1>2, <2>1, ReturnKeepsCalls
<1>7. ContainerTypeOK'
  <2>1. tearing' \in [TearDowns -> 0..Len(deregister') + 1 \cup {None}]
    <3>1. Len(deregister') + 1 \in Nat
      BY <1>5, LenProperties
    <3>2. QED
      BY <1>2, <1>4, <3>1 DEF ContainerTypeOK, RegistrarTypeOK
  <2>2. registry' \subseteq Plugins
    BY <1>2 DEF ContainerTypeOK, RegistrarTypeOK
  <2>3. QED
    BY <1>2, <1>5, <1>6, <2>1, <2>2 DEF ContainerTypeOK, RegistrarTypeOK
<1>8. RequiredNeverFail' /\ ReadyIsComplete'
  BY <1>2, <1>4 DEF RequiredNeverFail, ReadyIsComplete
<1>9. Staged'
  BY <1>2 DEF Staged, Running
<1>10. ExitCovers'
  <2>1. DOMAIN deregister' = 1..Len(deregister')
    BY <1>5, LenProperties
  <2>2. QED
    BY <1>2, <1>4, <1>5, <2>1, LenProperties DEF ExitCovers
<1>11. QED
  BY <1>5, <1>6, <1>7, <1>8, <1>9, <1>10

---------------------------------------------------------------------------------
(* Tear down *)

\* What the array and the indices are while something is torn down
LEMMA ArrayIsTyped ==
    ASSUME ContainerTypeOK
    PROVE  /\ deregister \in Seq(Deregistrable) /\ Len(deregister) \in Nat
           /\ DOMAIN deregister = 1..Len(deregister)
           /\ torn \in Seq(Deregistrable) /\ Len(torn) \in Nat /\ DOMAIN torn = 1..Len(torn)
           /\ tearing \in [TearDowns -> 0..Len(deregister) + 1 \cup {None}]
           /\ None \notin Nat /\ "exit" \in TearDowns
BY RegistrarAssumption, ContainerAssumption, LenProperties DEF ContainerTypeOK, RegistrarTypeOK

\* A plugin more that is torn down
LEMMA TornGrows ==
    ASSUME ContainerTypeOK, NEW p \in Deregistrable, torn' = Append(torn, p)
    PROVE  /\ torn' \in Seq(Deregistrable) /\ Len(torn') = Len(torn) + 1
           /\ DOMAIN torn' = 1..Len(torn) + 1
           /\ \A i \in DOMAIN torn : torn'[i] = torn[i]
           /\ torn'[Len(torn) + 1] = p
           /\ ToSet(torn) \subseteq ToSet(torn') /\ p \in ToSet(torn')
<1>1. /\ torn' \in Seq(Deregistrable) /\ Len(torn') = Len(torn) + 1
      /\ DOMAIN torn' = 1..Len(torn) + 1 /\ DOMAIN torn = 1..Len(torn)
      /\ \A i \in DOMAIN torn : torn'[i] = torn[i]
      /\ torn'[Len(torn) + 1] = p /\ Len(torn) \in Nat
  BY ArrayIsTyped, AppendProperties, LenProperties
<1>2. \A i \in DOMAIN torn : i \in DOMAIN torn'
  BY <1>1
<1>3. Len(torn) + 1 \in DOMAIN torn'
  BY <1>1
<1>4. ToSet(torn) \subseteq ToSet(torn') /\ p \in ToSet(torn')
  BY <1>1, <1>2, <1>3 DEF ToSet
<1>5. QED
  BY <1>1, <1>4

LEMMA TearDownStartsKeeps ==
    ASSUME ContainerInv, NEW t \in TearDowns, TearDownStarts(t)
    PROVE  /\ deregister' \in Seq(Deregistrable) /\ torn' \in Seq(Deregistrable)
           /\ tearing' \in [TearDowns -> 0..Len(deregister') + 1 \cup {None}]
           /\ Len(deregister') = Len(deregister)
           /\ RegisteredOnce' /\ BasesFirst' /\ ArrayOrdered'
           /\ deregister' # <<>> => deregister'[1] \in ToSet(torn')
<1> USE DEF ContainerInv
<1>0. /\ tearing[t] = 0 /\ tearing' = [tearing EXCEPT ![t] = 1]
      /\ deregister' = Reverse(deregister)
      /\ torn' = IF deregister = <<>> THEN torn ELSE Append(torn, Last(deregister))
      /\ UNCHANGED <<registry, failed, order>>
  BY DEF TearDownStarts
<1>1. PICK n \in Nat : n = Len(deregister) /\ DOMAIN deregister = 1..n
  BY ArrayIsTyped
<1>2. /\ deregister' \in Seq(Deregistrable) /\ Len(deregister') = n
      /\ DOMAIN deregister' = 1..n
      /\ \A i \in 1..n : n - i + 1 \in 1..n /\ deregister'[i] = deregister[n - i + 1]
  <2>1. deregister' \in Seq(Deregistrable) /\ Len(deregister') = n
        /\ \A i \in 1..n : deregister'[i] = deregister[n - i + 1]
    BY <1>0, <1>1, ArrayIsTyped, ReverseTurns
  <2>2. DOMAIN deregister' = 1..n
    BY <2>1, LenProperties
  <2>3. \A i \in 1..n : n - i + 1 \in 1..n
    BY <1>1
  <2>4. QED
    BY <2>1, <2>2, <2>3
<1>3. torn' \in Seq(Deregistrable) /\ (deregister' # <<>> => deregister'[1] \in ToSet(torn'))
  <2>1. CASE deregister = <<>>
    <3>1. n = 0
      BY <1>1, <2>1
    <3>2. deregister' = <<>>
      BY <1>2, <3>1, EmptySeq
    <3>3. QED
      BY <1>0, <2>1, <3>2, ArrayIsTyped
  <2>2. CASE deregister # <<>>
    <3>1. n \in 1..n /\ Last(deregister) = deregister[n] /\ deregister[n] \in Deregistrable
      BY <1>1, <2>2, ArrayIsTyped, LastIsLast, ElementOfSeq
    <3>2. torn' = Append(torn, deregister[n])
      BY <1>0, <2>2, <3>1
    <3>3. deregister'[1] = deregister[n]
      BY <1>2, <3>1
    <3>4. QED
      BY <3>1, <3>2, <3>3, TornGrows
  <2>3. QED
    BY <2>1, <2>2
<1>4. ToSet(deregister') = ToSet(deregister)
  <2>1. ASSUME NEW i \in 1..n PROVE deregister'[i] \in ToSet(deregister)
    BY <1>1, <1>2 DEF ToSet
  <2>2. ASSUME NEW i \in 1..n PROVE deregister[i] \in ToSet(deregister')
    <3>1. n - i + 1 \in 1..n /\ n - (n - i + 1) + 1 = i
      BY <1>2
    <3>2. deregister'[n - i + 1] = deregister[i]
      BY <1>2, <3>1
    <3>3. QED
      BY <1>2, <3>1, <3>2 DEF ToSet
  <2>3. QED
    BY <1>1, <1>2, <2>1, <2>2 DEF ToSet
<1>5. RegisteredOnce'
  BY <1>0, <1>4 DEF RegisteredOnce
<1>6. BasesFirst'
  BY <1>0 DEF BasesFirst
<1>7. tearing' \in [TearDowns -> 0..Len(deregister') + 1 \cup {None}]
  BY <1>0, <1>1, <1>2, ArrayIsTyped
<1>8. ArrayOrdered'
  <2>1. tearing'[t] = 1 /\ \A u \in TearDowns \ {t} : tearing'[u] = tearing[u]
    BY <1>0, ArrayIsTyped
  <2>2. ASSUME NEW u \in TearDowns, tearing'[u] # 0, \A v \in TearDowns \ {u} : tearing'[v] = 0
        PROVE  u = t /\ \A v \in TearDowns : tearing[v] = 0
    BY <1>0, <2>1, <2>2
  <2>3. ASSUME \A v \in TearDowns : tearing[v] = 0
        PROVE  /\ \A i, j \in DOMAIN deregister' :
                      i < j => RegisteredBefore(deregister[j], deregister[i])'
               /\ Len(torn') <= Len(deregister')
               /\ \A i \in DOMAIN torn' : torn'[i] = deregister'[i]
               /\ 1 \in DOMAIN deregister' => Len(torn') = 1
    <3>1. torn = <<>>
      BY <2>3 DEF ArrayOrdered
    <3>2. \A i, j \in 1..n : i < j => RegisteredBefore(deregister'[j], deregister'[i])
      <4>1. TAKE i, j \in 1..n
      <4>2. HAVE i < j
      <4>3. /\ n - i + 1 \in 1..n /\ n - j + 1 \in 1..n /\ n - j + 1 < n - i + 1
            /\ deregister'[i] = deregister[n - i + 1] /\ deregister'[j] = deregister[n - j + 1]
        BY <1>2, <4>2
      <4>4. RegisteredBefore(deregister[n - j + 1], deregister[n - i + 1])
        BY <1>1, <2>3, <4>3 DEF ArrayOrdered
      <4>5. QED
        BY <4>3, <4>4
    <3>3. \A i, j \in DOMAIN deregister' : i < j => RegisteredBefore(deregister[j], deregister[i])'
      BY <1>0, <1>2, <3>2 DEF RegisteredBefore
    <3>4. CASE deregister = <<>>
      <4>1. torn' = <<>> /\ n = 0
        BY <1>0, <1>1, <3>1, <3>4
      <4>2. QED
        BY <1>2, <3>3, <4>1
    <3>5. CASE deregister # <<>>
      <4>1. n \in 1..n /\ Last(deregister) = deregister[n] /\ deregister[n] \in Deregistrable
        BY <1>1, <3>5, ArrayIsTyped, LastIsLast, ElementOfSeq
      <4>2. torn' = <<deregister[n]>>
        BY <1>0, <3>1, <3>5, <4>1
      <4>3. deregister'[1] = deregister[n]
        BY <1>2, <4>1
      <4>4. QED
        BY <1>2, <3>3, <4>1, <4>2, <4>3
    <3>6. QED
      BY <3>4, <3>5
  <2>4. ~ \A v \in TearDowns : tearing'[v] = 0
    BY <2>1
  <2>5. ASSUME NEW u \in TearDowns, tearing'[u] # 0, \A v \in TearDowns \ {u} : tearing'[v] = 0
        PROVE  /\ \A i, j \in DOMAIN deregister' :
                      i < j => RegisteredBefore(deregister[j], deregister[i])'
               /\ Len(torn') <= Len(deregister')
               /\ \A i \in DOMAIN torn' : torn'[i] = deregister'[i]
               /\ tearing'[u] \in DOMAIN deregister' => Len(torn') = tearing'[u]
    BY <2>1, <2>2, <2>3, <2>5
  <2>6. QED
    BY <2>4, <2>5 DEF ArrayOrdered
<1>9. QED
  BY <1>1, <1>2, <1>3, <1>5, <1>6, <1>7, <1>8

\* A tear down that is alone goes through the array from its start, plugin by plugin.
LEMMA DeregisterKeeps ==
    ASSUME ContainerInv, NEW t \in TearDowns, DeregisterSettles(t)
    PROVE  ContainerInv'
<1> USE DEF ContainerInv
<1>0. /\ TearingDown(t) /\ exitCode = None
      /\ UNCHANGED <<next, stack, registry, failed, deregister, order, stage, isReady>>
      /\ UNCHANGED <<shuttingDown, exitCode, rejected>>
      /\ \/ /\ tearing' = [tearing EXCEPT ![t] = @ + 1]
            /\ torn' = IF tearing[t] < Len(deregister)
                       THEN Append(torn, deregister[tearing[t] + 1]) ELSE torn
         \/ tearing' = [tearing EXCEPT ![t] = None] /\ UNCHANGED torn
  BY DEF DeregisterSettles, DeregisterResolves, DeregisterRejects, TearingDown, Running, processVars
<1>1. PICK n \in Nat : n = Len(deregister) /\ DOMAIN deregister = 1..n
  BY ArrayIsTyped
<1>2. PICK k \in 1..n : k = tearing[t]
  BY <1>0, <1>1 DEF TearingDown
<1>3. /\ tearing' \in [TearDowns -> 0..n + 1 \cup {None}]
      /\ tearing'[t] # 0 /\ (tearing'[t] = k + 1 \/ tearing'[t] = None)
      /\ \A u \in TearDowns \ {t} : tearing'[u] = tearing[u]
  <2>1. /\ tearing \in [TearDowns -> 0..n + 1 \cup {None}]
        /\ None \notin Nat /\ k + 1 \in 0..n + 1 /\ k + 1 # 0 /\ None # 0
    BY <1>1, ArrayIsTyped
  <2>2. CASE tearing' = [tearing EXCEPT ![t] = @ + 1]
    <3>1. tearing' = [tearing EXCEPT ![t] = k + 1]
      BY <1>2, <2>2
    <3>2. QED
      BY <2>1, <3>1
  <2>3. CASE tearing' = [tearing EXCEPT ![t] = None]
    BY <2>1, <2>3
  <2>4. QED
    BY <1>0, <2>2, <2>3
<1>4. \/ /\ tearing'[t] = k + 1 /\ k < n /\ k + 1 \in DOMAIN deregister
         /\ torn' = Append(torn, deregister[k + 1]) /\ deregister[k + 1] \in Deregistrable
      \/ tearing'[t] = k + 1 /\ k = n /\ torn' = torn
      \/ tearing'[t] = None /\ torn' = torn
  <2>1. CASE tearing' = [tearing EXCEPT ![t] = @ + 1]
             /\ torn' = IF k < n THEN Append(torn, deregister[k + 1]) ELSE torn
    <3>1. tearing'[t] = k + 1
      BY <1>2, <2>1, ArrayIsTyped
    <3>2. CASE k < n
      <4>1. k + 1 \in DOMAIN deregister /\ k + 1 \in 1..Len(deregister)
        BY <1>1, <3>2
      <4>2. deregister[k + 1] \in Deregistrable
        BY <4>1, ArrayIsTyped, ElementOfSeq
      <4>3. QED
        BY <2>1, <3>1, <3>2, <4>1, <4>2
    <3>3. CASE ~(k < n)
      BY <1>1, <1>2, <2>1, <3>1, <3>3
    <3>4. QED
      BY <3>2, <3>3
  <2>2. CASE tearing' = [tearing EXCEPT ![t] = None] /\ UNCHANGED torn
    BY <2>2, ArrayIsTyped
  <2>3. QED
    BY <1>0, <1>1, <1>2, <2>1, <2>2
<1>5. torn' \in Seq(Deregistrable) /\ ToSet(torn) \subseteq ToSet(torn')
  BY <1>4, TornGrows, ArrayIsTyped
<1>6. ContainerTypeOK'
  BY <1>0, <1>1, <1>3, <1>5 DEF ContainerTypeOK, RegistrarTypeOK
<1>7. CallsNested' /\ LoopHandles' /\ RequiredNeverFail'
  BY <1>0 DEF CallsNested, LoopHandles, RequiredNeverFail, Handled, ShouldBeRegistered
<1>8. RegisteredOnce' /\ BasesFirst' /\ ReadyIsComplete'
  BY <1>0 DEF RegisteredOnce, BasesFirst, ReadyIsComplete
<1>9. Staged'
  <2>1. k # 0
    BY <1>2
  <2>2. tearing[t] # 0
    BY <1>2, <2>1
  <2>3. stage = "done"
    BY <2>2 DEF Staged
  <2>4. QED
    BY <1>0, <2>3 DEF Staged, Running
<1>10. ArrayOrdered'
  <2>1. ASSUME \A v \in TearDowns \ {t} : tearing[v] = 0
        PROVE  /\ \A i, j \in DOMAIN deregister :
                      i < j => RegisteredBefore(deregister[j], deregister[i])
               /\ Len(torn) = k /\ DOMAIN torn = 1..k
               /\ \A i \in 1..k : torn[i] = deregister[i]
    <3>1. tearing[t] # 0 /\ tearing[t] \in DOMAIN deregister
      BY <1>1, <1>2
    <3>2. QED
      BY <1>2, <2>1, <3>1, ArrayIsTyped DEF ArrayOrdered
  <2>2. ASSUME \A v \in TearDowns \ {t} : tearing[v] = 0
        PROVE  /\ Len(torn') <= n
               /\ \A i \in DOMAIN torn' : torn'[i] = deregister[i]
               /\ tearing'[t] \in DOMAIN deregister => Len(torn') = tearing'[t]
    <3>1. CASE k < n /\ tearing'[t] = k + 1 /\ torn' = Append(torn, deregister[k + 1])
               /\ deregister[k + 1] \in Deregistrable
      <4>1. /\ Len(torn') = k + 1 /\ DOMAIN torn' = 1..k + 1
            /\ \A i \in 1..k : torn'[i] = torn[i]
            /\ torn'[k + 1] = deregister[k + 1]
        BY <2>1, <2>2, <3>1, TornGrows
      <4>2. QED
        BY <1>1, <2>1, <2>2, <3>1, <4>1
    <3>2. CASE tearing'[t] = k + 1 /\ k = n /\ torn' = torn
      BY <1>1, <2>1, <2>2, <3>2
    <3>3. CASE tearing'[t] = None /\ torn' = torn
      <4>1. tearing'[t] \notin DOMAIN deregister
        BY <1>1, <3>3, ArrayIsTyped
      <4>2. QED
        BY <1>1, <2>1, <2>2, <3>3, <4>1
    <3>4. QED
      BY <1>4, <3>1, <3>2, <3>3
  <2>3. ASSUME NEW u \in TearDowns, tearing'[u] # 0, \A v \in TearDowns \ {u} : tearing'[v] = 0
        PROVE  u = t /\ \A v \in TearDowns \ {t} : tearing[v] = 0
    BY <1>3, <2>3
  <2>4. ~ \A v \in TearDowns : tearing'[v] = 0
    BY <1>3
  <2>5. ASSUME \A v \in TearDowns \ {t} : tearing[v] = 0
        PROVE  \A i, j \in DOMAIN deregister' :
                   i < j => RegisteredBefore(deregister[j], deregister[i])'
    BY <1>0, <2>1, <2>5 DEF RegisteredBefore
  <2>6. ASSUME NEW u \in TearDowns, tearing'[u] # 0, \A v \in TearDowns \ {u} : tearing'[v] = 0
        PROVE  /\ \A i, j \in DOMAIN deregister' :
                      i < j => RegisteredBefore(deregister[j], deregister[i])'
               /\ Len(torn') <= Len(deregister')
               /\ \A i \in DOMAIN torn' : torn'[i] = deregister'[i]
               /\ tearing'[u] \in DOMAIN deregister' => Len(torn') = tearing'[u]
    BY <1>0, <1>1, <2>2, <2>3, <2>5, <2>6
  <2>7. QED
    BY <2>4, <2>6 DEF ArrayOrdered
<1>11. ExitCovers'
  <2>1. tearing'["exit"] # 0 => shuttingDown'
    <3>1. tearing'["exit"] # 0 => tearing["exit"] # 0
      <4>1. CASE t = "exit"
        BY <1>2, <4>1
      <4>2. CASE t # "exit"
        BY <1>3, <4>2, ArrayIsTyped
      <4>3. QED
        BY <4>1, <4>2
    <3>2. QED
      BY <1>0, <3>1 DEF ExitCovers
  <2>2. ASSUME tearing'["exit"] \in Nat, NEW j \in DOMAIN deregister, j <= tearing'["exit"]
        PROVE  deregister[j] \in ToSet(torn')
    <3>1. CASE t # "exit"
      BY <1>3, <1>5, <2>2, <3>1, ArrayIsTyped DEF ExitCovers
    <3>2. CASE t = "exit"
      <4>1. tearing'[t] = k + 1
        BY <1>3, <2>2, <3>2, ArrayIsTyped
      <4>2. CASE j <= k
        BY <1>1, <1>2, <1>5, <3>2, <4>2 DEF ExitCovers
      <4>3. CASE j = k + 1
        <5>1. k < n
          BY <1>1, <4>3
        <5>2. torn' = Append(torn, deregister[k + 1]) /\ deregister[k + 1] \in Deregistrable
          BY <1>4, <4>1, <5>1, ArrayIsTyped
        <5>3. QED
          BY <4>3, <5>2, TornGrows
      <4>4. QED
        BY <1>1, <2>2, <3>2, <4>1, <4>2, <4>3
    <3>3. QED
      BY <3>1, <3>2
  <2>3. exitCode' # 0
    BY <1>0, RegistrarAssumption
  <2>4. QED
    BY <1>0, <2>1, <2>2, <2>3 DEF ExitCovers
<1>12. QED
  BY <1>6, <1>7, <1>8, <1>9, <1>10, <1>11

---------------------------------------------------------------------------------
(* The other operations of the container *)

\* A step that leaves the arrays, the indices and what is under way alone
LEMMA AllElseKept ==
    ASSUME ContainerInv,
           UNCHANGED <<next, registry, failed, deregister, order, tearing, torn>>,
           UNCHANGED stack \/ (stack' = <<>> /\ rejected'), rejected => rejected'
    PROVE  /\ stack' \in Seq(Frame) /\ CallsNested' /\ LoopHandles' /\ RequiredNeverFail'
           /\ RegisteredOnce' /\ BasesFirst' /\ ArrayOrdered'
<1> USE DEF ContainerInv
<1>1. CASE UNCHANGED stack
  <2>1. CallsNested' /\ LoopHandles'
    BY <1>1 DEF CallsNested, LoopHandles, Handled, ShouldBeRegistered
  <2>2. QED
    BY <1>1, <2>1, ArraysKept DEF RequiredNeverFail, ContainerTypeOK, RegistrarTypeOK
<1>2. CASE stack' = <<>> /\ rejected'
  <2>1. CallsNested' /\ LoopHandles' /\ stack' \in Seq(Frame)
    BY <1>2, EmptySeq DEF CallsNested, LoopHandles
  <2>2. QED
    BY <2>1, ArraysKept DEF RequiredNeverFail
<1>3. QED
  BY <1>1, <1>2

LEMMA SetUpKeeps ==
    ASSUME ContainerInv, SetUp
    PROVE  ContainerInv'
<1> USE DEF ContainerInv
<1>1. /\ stage = "new" /\ stage' = "configuring"
      /\ UNCHANGED <<next, registry, failed, deregister, tearing, order, torn, isReady>>
  BY DEF SetUp
<1>2. CASE ForceExit
  BY <1>1, <1>2, ForceExitKeeps
<1>3. CASE UNCHANGED <<stack, processVars>>
  <2>1. UNCHANGED <<stack, shuttingDown, exitCode, rejected>>
    BY <1>3 DEF processVars
  <2>2. /\ stack' \in Seq(Frame) /\ CallsNested' /\ LoopHandles' /\ RequiredNeverFail'
        /\ RegisteredOnce' /\ BasesFirst' /\ ArrayOrdered'
    BY <1>1, <2>1, AllElseKept
  <2>3. ContainerTypeOK'
    BY <1>1, <2>1 DEF ContainerTypeOK, RegistrarTypeOK
  <2>4. Staged' /\ ReadyIsComplete' /\ ExitCovers'
    BY <1>1, <2>1 DEF Staged, ReadyIsComplete, ExitCovers, Running
  <2>5. QED
    BY <2>2, <2>3, <2>4
<1>4. QED
  BY <1>2, <1>3 DEF SetUp

LEMMA ConfiguredKeeps ==
    ASSUME ContainerInv, Configured
    PROVE  ContainerInv'
<1> USE DEF ContainerInv
<1>1. /\ stage = "configuring" /\ stage' \in {"configuring", "plugins"}
      /\ UNCHANGED <<next, registry, failed, deregister, tearing, order, torn, isReady>>
      /\ UNCHANGED <<shuttingDown, exitCode>>
      /\ UNCHANGED <<stack, rejected>> \/ (stack' = <<>> /\ rejected' = TRUE)
  BY DEF Configured, Throws
<1>2. /\ stack' \in Seq(Frame) /\ CallsNested' /\ LoopHandles' /\ RequiredNeverFail'
      /\ RegisteredOnce' /\ BasesFirst' /\ ArrayOrdered'
  BY <1>1, AllElseKept
<1>3. rejected' \in BOOLEAN
  BY <1>1 DEF ContainerTypeOK, RegistrarTypeOK
<1>4. ContainerTypeOK'
  BY <1>1, <1>2, <1>3 DEF ContainerTypeOK, RegistrarTypeOK
<1>5. Staged' /\ ReadyIsComplete' /\ ExitCovers'
  BY <1>1 DEF Staged, ReadyIsComplete, ExitCovers, Running
<1>6. QED
  BY <1>2, <1>4, <1>5

\* The loop has ended, and not because of a shutdown: it has passed every plugin.
LEMMA PluginsSetUpKeeps ==
    ASSUME ContainerInv, PluginsSetUp
    PROVE  ContainerInv'
<1> USE DEF ContainerInv
<1>1. /\ stage = "plugins" /\ Running /\ ~rejected /\ stack = <<>> /\ LoopEnds
      /\ stage' = "done" /\ isReady' = TRUE
      /\ UNCHANGED <<next, stack, registry, failed, deregister, tearing, order, torn>>
      /\ UNCHANGED <<shuttingDown, exitCode, rejected>>
  BY DEF PluginsSetUp, registrarVars, processVars
<1>2. /\ stack' \in Seq(Frame) /\ CallsNested' /\ LoopHandles' /\ RequiredNeverFail'
      /\ RegisteredOnce' /\ BasesFirst' /\ ArrayOrdered'
  BY <1>1, AllElseKept
<1>3. ContainerTypeOK'
  BY <1>1 DEF ContainerTypeOK, RegistrarTypeOK
<1>4. Staged' /\ ExitCovers'
  BY <1>1 DEF Staged, ExitCovers
<1>5. ASSUME ExitAt = None, NEW p \in ToSet(Listed) \cap Required \cap Loadable \cap Registrable,
             ShouldBeRegistered(p)
      PROVE  p \in registry
  <2>1. /\ Listed \in Seq(Plugins) /\ next \in 1..Len(Listed) + 1 /\ Len(Listed) \in Nat
        /\ DOMAIN Listed = 1..Len(Listed)
    BY RegistrarAssumption, LenProperties DEF ContainerTypeOK, RegistrarTypeOK
  <2>2. next > Len(Listed)
    <3>1. ~shuttingDown
      BY <1>1 DEF Staged
    <3>2. ASSUME next <= Len(Listed), next > 1 PROVE Listed[next - 1] # ExitAt
      <4>1. next - 1 \in 1..Len(Listed)
        BY <2>1, <3>2
      <4>2. QED
        BY <1>5, <2>1, <4>1, ElementOfSeq, RegistrarAssumption
    <3>3. QED
      BY <1>1, <2>1, <3>1, <3>2 DEF LoopEnds
  <2>3. PICK i \in 1..Len(Listed) : p = Listed[i]
    BY <2>1 DEF ToSet
  <2>4. i \in 1..next - 1 /\ p \in Plugins
    BY <2>1, <2>2, <2>3, ElementOfSeq
  <2>5. Handled(p)
    BY <1>1, <1>5, <2>3, <2>4 DEF LoopHandles
  <2>6. p \notin failed
    BY DEF RequiredNeverFail
  <2>7. p # None
    BY <2>4, RegistrarAssumption
  <2>8. QED
    BY <1>5, <2>5, <2>6, <2>7 DEF Handled
<1>6. ReadyIsComplete'
  BY <1>1, <1>5 DEF ReadyIsComplete, ShouldBeRegistered
<1>7. QED
  BY <1>2, <1>3, <1>4, <1>6

\* A tear down begins only in a container that is set up, and one of SIGINT only
\* when no other one of SIGINT has begun.
LEMMA TearDownBeginsKeeps ==
    ASSUME ContainerInv, NEW t \in TearDowns, TearDownStarts(t), isReady, Running, ~shuttingDown,
           shuttingDown' \in BOOLEAN, t = "exit" => shuttingDown',
           UNCHANGED <<exitCode, rejected, stage, isReady>>
    PROVE  ContainerInv'
<1> USE DEF ContainerInv
<1>1. /\ tearing[t] = 0 /\ tearing' = [tearing EXCEPT ![t] = 1]
      /\ UNCHANGED <<next, stack, registry, failed, order>>
  BY DEF TearDownStarts
<1>2. /\ deregister' \in Seq(Deregistrable) /\ torn' \in Seq(Deregistrable)
      /\ tearing' \in [TearDowns -> 0..Len(deregister') + 1 \cup {None}]
      /\ Len(deregister') = Len(deregister)
      /\ RegisteredOnce' /\ BasesFirst' /\ ArrayOrdered'
      /\ deregister' # <<>> => deregister'[1] \in ToSet(torn')
  BY TearDownStartsKeeps
<1>3. CallsNested' /\ LoopHandles' /\ RequiredNeverFail' /\ ReadyIsComplete'
  BY <1>1 DEF CallsNested, LoopHandles, Handled, ShouldBeRegistered, RequiredNeverFail,
              ReadyIsComplete
<1>4. stage = "done" /\ exitCode # 0
  BY RegistrarAssumption DEF Staged, Running
<1>5. ContainerTypeOK'
  BY <1>1, <1>2, <1>4 DEF ContainerTypeOK, RegistrarTypeOK
<1>6. Staged'
  BY <1>4 DEF Staged
<1>7. ExitCovers'
  <2>1. DOMAIN deregister' = 1..Len(deregister') /\ tearing["exit"] = 0
        /\ tearing'["exit"] = IF t = "exit" THEN 1 ELSE 0
    BY <1>1, <1>2, LenProperties, ArrayIsTyped DEF ExitCovers
  <2>2. ASSUME NEW j \in DOMAIN deregister', j <= tearing'["exit"]
        PROVE  deregister'[j] \in ToSet(torn')
    <3>1. j = 1 /\ deregister' # <<>>
      BY <1>2, <2>1, <2>2, LenProperties
    <3>2. QED
      BY <1>2, <3>1
  <2>3. tearing'["exit"] # 0 => shuttingDown'
    BY <2>1
  <2>4. QED
    BY <1>4, <2>2, <2>3 DEF ExitCovers
<1>8. QED
  BY <1>2, <1>3, <1>5, <1>6, <1>7

LEMMA InterruptKeeps ==
    ASSUME ContainerInv, Interrupt
    PROVE  ContainerInv'
<1> USE DEF ContainerInv
<1>1. /\ Running /\ ~shuttingDown /\ shuttingDown' = TRUE
      /\ UNCHANGED <<rejected, stage, isReady>>
  BY DEF Interrupt
<1>2. CASE isReady /\ TearDownStarts("exit") /\ UNCHANGED exitCode
  BY <1>1, <1>2, TearDownBeginsKeeps, ContainerAssumption
<1>3. CASE ~isReady /\ exitCode' = 0 /\ UNCHANGED registrarVars
  <2>1. UNCHANGED <<next, stack, registry, failed, deregister, tearing, order, torn>>
    BY <1>3 DEF registrarVars
  <2>2. /\ stack' \in Seq(Frame) /\ CallsNested' /\ LoopHandles' /\ RequiredNeverFail'
        /\ RegisteredOnce' /\ BasesFirst' /\ ArrayOrdered'
    BY <1>1, <2>1, AllElseKept
  <2>3. ContainerTypeOK'
    BY <1>1, <1>3, <2>1 DEF ContainerTypeOK, RegistrarTypeOK
  <2>4. Staged' /\ ReadyIsComplete' /\ ExitCovers'
    BY <1>1, <1>3, <2>1, RegistrarAssumption DEF Staged, ReadyIsComplete, ExitCovers, Running
  <2>5. QED
    BY <2>2, <2>3, <2>4
<1>4. QED
  BY <1>2, <1>3 DEF Interrupt

LEMMA ExitKeeps ==
    ASSUME ContainerInv, ExitAfterTearDown \/ AppTearDownEnds
    PROVE  ContainerInv'
<1> USE DEF ContainerInv
<1>1. /\ UNCHANGED <<next, stack, registry, failed, deregister, tearing, order, torn>>
      /\ UNCHANGED <<shuttingDown, rejected, stage>>
      /\ \/ tearing["exit"] = Len(deregister) + 1 /\ exitCode' = 0 /\ UNCHANGED isReady
         \/ isReady' = FALSE /\ UNCHANGED exitCode
  BY DEF ExitAfterTearDown, AppTearDownEnds, TornDown, registrarVars, processVars
<1>2. /\ stack' \in Seq(Frame) /\ CallsNested' /\ LoopHandles' /\ RequiredNeverFail'
      /\ RegisteredOnce' /\ BasesFirst' /\ ArrayOrdered'
  BY <1>1, AllElseKept
<1>3. ContainerTypeOK'
  <2>1. exitCode' \in {None, 0, 1} /\ isReady' \in BOOLEAN
    BY <1>1 DEF ContainerTypeOK, RegistrarTypeOK
  <2>2. QED
    BY <1>1, <2>1 DEF ContainerTypeOK, RegistrarTypeOK
<1>4. Staged' /\ ReadyIsComplete' /\ ExitCovers'
  BY <1>1, RegistrarAssumption DEF Staged, ReadyIsComplete, ExitCovers, Running
<1>5. QED
  BY <1>2, <1>3, <1>4

---------------------------------------------------------------------------------
(* The theorem *)

LEMMA InitSafe == ContainerInit => ContainerInv
<1> SUFFICES ASSUME ContainerInit PROVE ContainerInv
  OBVIOUS
<1> USE DEF ContainerInit, RegistrarInit
<1>1. ContainerTypeOK
  <2>1. Len(Listed) \in Nat
    BY RegistrarAssumption, LenProperties
  <2>2. stack \in Seq(Frame) /\ deregister \in Seq(Deregistrable) /\ Len(deregister) = 0
        /\ order \in Seq(registry) /\ torn \in Seq(Deregistrable)
    BY EmptySeq
  <2>3. tearing \in [TearDowns -> 0..Len(deregister) + 1 \cup {None}] /\ next \in 1..Len(Listed) + 1
    BY <2>1, <2>2
  <2>4. QED
    BY <2>2, <2>3 DEF ContainerTypeOK, RegistrarTypeOK
<1>2. CallsNested /\ LoopHandles /\ RequiredNeverFail /\ Staged
  BY DEF CallsNested, LoopHandles, RequiredNeverFail, Staged
<1>3. RegisteredOnce /\ BasesFirst /\ ReadyIsComplete
  BY DEF RegisteredOnce, BasesFirst, ReadyIsComplete, ToSet
<1>4. ArrayOrdered /\ ExitCovers
  BY ContainerAssumption DEF ArrayOrdered, ExitCovers
<1>5. QED
  BY <1>1, <1>2, <1>3, <1>4 DEF ContainerInv

LEMMA StepSafe == ContainerInv /\ [ContainerNext]_vars => ContainerInv'
<1> SUFFICES ASSUME ContainerInv, [ContainerNext]_vars PROVE ContainerInv'
  OBVIOUS
<1>1. CASE PluginStep
  BY <1>1, NextPluginKeeps, GoOnKeeps, CallRegisterKeeps, RegisterResolvesKeeps,
     RegisterRejectsKeeps DEF PluginStep, SetUpStep
<1>2. CASE AppTearDown
  <2>1. /\ isReady /\ Running /\ ~shuttingDown /\ TearDownStarts("app")
        /\ UNCHANGED <<shuttingDown, exitCode, rejected, stage, isReady>>
    BY <1>2 DEF AppTearDown, processVars
  <2>2. shuttingDown' \in BOOLEAN
    BY <2>1 DEF ContainerInv, ContainerTypeOK, RegistrarTypeOK
  <2>3. QED
    BY <2>1, <2>2, TearDownBeginsKeeps, ContainerAssumption
<1>3. CASE PluginForcesExit
  BY <1>3, ForceExitKeeps DEF PluginForcesExit
<1>4. CASE CommandExits
  BY <1>4, ForceExitKeeps DEF CommandExits, registrarVars
<1>5. CASE UNCHANGED vars
  <2>1. /\ UNCHANGED <<next, stack, registry, failed, deregister, tearing, order, torn>>
        /\ UNCHANGED <<shuttingDown, exitCode, rejected, stage, isReady>>
    BY <1>5 DEF vars, registrarVars, processVars
  <2>2. /\ CallsNested' /\ LoopHandles' /\ RequiredNeverFail'
        /\ RegisteredOnce' /\ BasesFirst' /\ ArrayOrdered'
    BY <2>1, AllElseKept
  <2>3. ContainerTypeOK' /\ Staged' /\ ReadyIsComplete' /\ ExitCovers'
    BY <2>1 DEF ContainerInv, ContainerTypeOK, RegistrarTypeOK, Staged, ReadyIsComplete,
                ExitCovers, Running
  <2>4. QED
    BY <2>2, <2>3 DEF ContainerInv
<1>6. QED
  BY <1>1, <1>2, <1>3, <1>4, <1>5, SetUpKeeps, ConfiguredKeeps, PluginsSetUpKeeps, ExitKeeps,
     InterruptKeeps, DeregisterKeeps DEF ContainerNext, Progress

\* Whoever is registered later than a plugin that was torn down comes before it in
\* the reversed array.
LEMMA OrderedIsReverse ==
    ASSUME ContainerInv
    PROVE  TearDownInReverse
<1> USE DEF ContainerInv
<1>1. SUFFICES ASSUME NEW t \in TearDowns, tearing[t] = 0
               PROVE  /\ \A i, j \in DOMAIN torn : i < j => RegisteredBefore(torn[j], torn[i])
                      /\ \A p \in ToSet(torn), q \in registry \cap Deregistrable :
                            RegisteredBefore(p, q) => q \in ToSet(torn)
  BY DEF TearDownInReverse
<1>2. CASE \A u \in TearDowns : tearing[u] = 0
  BY <1>2 DEF ArrayOrdered, ToSet
<1>3. ASSUME NEW u \in TearDowns, tearing[u] # 0
      PROVE  /\ \A i, j \in DOMAIN torn : i < j => RegisteredBefore(torn[j], torn[i])
             /\ \A p \in ToSet(torn), q \in registry \cap Deregistrable :
                   RegisteredBefore(p, q) => q \in ToSet(torn)
  <2>1. \A v \in TearDowns \ {u} : tearing[v] = 0
    BY <1>1, <1>3, ContainerAssumption
  <2>2. /\ \A i, j \in DOMAIN deregister : i < j => RegisteredBefore(deregister[j], deregister[i])
        /\ \A i \in DOMAIN torn : i \in DOMAIN deregister /\ torn[i] = deregister[i]
        /\ DOMAIN torn \subseteq Nat /\ DOMAIN deregister \subseteq Nat
    BY <1>3, <2>1, ArrayIsTyped DEF ArrayOrdered
  <2>3. ASSUME NEW p \in ToSet(torn), NEW q \in registry \cap Deregistrable, RegisteredBefore(p, q)
        PROVE  q \in ToSet(torn)
    <3>1. PICK i \in DOMAIN torn : torn[i] = p
      BY DEF ToSet
    <3>2. PICK j \in DOMAIN deregister : deregister[j] = q
      BY DEF RegisteredOnce, ToSet
    <3>3. CASE j \in DOMAIN torn
      BY <2>2, <3>2, <3>3 DEF ToSet
    <3>4. CASE j \notin DOMAIN torn
      <4>1. i < j
        BY <2>2, <3>1, <3>2, <3>4, ArrayIsTyped
      <4>2. RegisteredBefore(q, p)
        BY <2>2, <3>1, <3>2, <4>1
      <4>3. DOMAIN order \subseteq Nat
        BY LenProperties DEF ContainerTypeOK, RegistrarTypeOK
      <4>4. QED
        BY <2>3, <4>2, <4>3 DEF RegisteredBefore, RegisteredOnce
    <3>5. QED
      BY <3>3, <3>4
  <2>4. QED
    BY <2>2, <2>3
<1>4. QED
  BY <1>2, <1>3

LEMMA CoveredIsGraceful ==
    ASSUME ContainerInv
    PROVE  GracefulExit
<1>1. SUFFICES ASSUME exitCode = 0, tearing["exit"] # 0, NEW j \in DOMAIN deregister
               PROVE  deregister[j] \in ToSet(torn)
  BY DEF GracefulExit, ToSet
<1>2. tearing["exit"] = Len(deregister) + 1 /\ j <= tearing["exit"] /\ tearing["exit"] \in Nat
  BY <1>1, ArrayIsTyped DEF ContainerInv, ExitCovers
<1>3. QED
  BY <1>2 DEF ContainerInv, ExitCovers

\* Of any configuration of plugins, whatever fails and whenever the process is
\* interrupted: each is registered once and after what it builds upon, a container
\* that is ready has all that are required, a tear down goes in reverse, and an
\* exit that is graceful has deregistered everything.
THEOREM ContainerSafe ==
    ContainerSpec => [](/\ ContainerTypeOK /\ TearDownInReverse /\ RegisteredOnce /\ BasesFirst
                        /\ ReadyIsComplete /\ GracefulExit)
<1>1. ContainerInv => /\ ContainerTypeOK /\ TearDownInReverse /\ RegisteredOnce /\ BasesFirst
                      /\ ReadyIsComplete /\ GracefulExit
  BY OrderedIsReverse, CoveredIsGraceful DEF ContainerInv
<1>2. QED
  BY <1>1, InitSafe, StepSafe, PTL DEF ContainerSpec
==================================================================================
