------------------------------ MODULE CommandsProofs ------------------------------
(* Proofs about Commands for any number of commands at a time, tokens, flags and   *)
(* releases.                                                                       *)
EXTENDS Commands, TLAPS

\* What is about to be written is a file.
PendingComplete ==
    \A c \in Commands :
        /\ command[c].pc \in {"touch", "truncate", "write"} => command[c].pending \in Files
        /\ command[c].pc \in {"setup", "remove"} => command[c].release \in Releases

\* Only core:stop asks pm2 about a process and acts on it.
ChecksOfKind ==
    \A c \in Commands : command[c].pc \in Questions \cup {"act"} => command[c].kind # "run"

\* A command that has been alone so far still is.
AloneIsAlone ==
    \A c \in Commands :
        Active(c) /\ command[c].alone => \A d \in Commands \ {c} : At(d, "idle")

\* How far a command that is alone has repaired the file.
Repairing ==
    \A c \in Commands : command[c].alone =>
        /\ command[c].pc \in {"hook", "update", "parse"} => Readable(file)
        /\ At(c, "parse") /\ command[c].release = "next" => file.channel = "next"
        /\ Replacing(c) /\ command[c].then = "parse" => command[c].pending.channel = "next"
        /\ At(c, "write") => command[c].held /\ ~Readable(file)

\* What a command that is alone knows of the process it is going to act on.
Acting ==
    \A c \in Commands : command[c].alone =>
        /\ At(c, "unknown") => Status(c) # "missing"
        /\ At(c, "stopped") => Status(c) # "missing"
        /\ At(c, "act") => Status(c) \notin {"missing", "stopped"}

\* As long as nothing is harmed, nobody resets the file, and whoever rewrites it
\* has read the token.
Keeping ==
    harmed \/ configured = Bin \/
        /\ \A c \in Commands :
            /\ command[c].pc \notin {"remove", "touch"}
            /\ command[c].pc \in {"truncate", "write"} => command[c].pending.token = configured
            /\ At(c, "write") => command[c].held
        /\ IF Readable(file) THEN file.token = configured ELSE \E c \in Commands : At(c, "write")

CommandsInv ==
    /\ CommandsTypeOK /\ PendingComplete /\ ChecksOfKind /\ AloneIsAlone
    /\ Repairing /\ Acting /\ Keeping
-----------------------------------------------------------------------------
(* The checks *)

LEMMA IdleIsSlot == Idle \in Slots
BY DEF Idle, Slots, Kinds

\* A command that has a file in hand to write is still one.
LEMMA PendingIsSlot ==
    ASSUME NEW s \in Slots, NEW pc \in {"touch", "truncate"}, NEW then \in {"hook", "parse"},
           NEW new \in Files
    PROVE  [s EXCEPT !.pc = pc, !.then = then, !.pending = new] \in Slots
BY DEF Slots

\* So is one whose file is unlinked.
LEMMA UnlinkedIsSlot ==
    ASSUME NEW s \in Slots
    PROVE  [s EXCEPT !.held = FALSE] \in Slots
BY DEF Slots

\* The checks follow each other in an order in which the last one is about the
\* stopped.
LEMMA AfterEach ==
    /\ After("missing") = "unknown"
    /\ After("unknown") = "stopped"
    /\ After("stopped") = "act"
BY DEF After, Checks

-----------------------------------------------------------------------------
(* Each operation keeps the invariant *)

LEMMA BeginKeeps ==
    ASSUME CommandsInv, NEW c \in Commands, NEW release \in Releases, Begin(c, release)
    PROVE  CommandsInv'
<1> DEFINE others == {d \in Commands : Active(d)}
<1>1. command'[c] = [pc |-> "setup", kind |-> "run", release |-> release, pending |-> None,
                     then |-> "hook", held |-> FALSE, token |-> None, alone |-> (others = {})]
  BY DEF CommandsInv, Begin, Idle
<1>2. PICK alone \in BOOLEAN : alone = (others = {})
  BY Zenon
<1>3. command'[c] = [pc |-> "setup", kind |-> "run", release |-> release, pending |-> None,
                     then |-> "hook", held |-> FALSE, token |-> None, alone |-> alone]
  BY <1>1, <1>2, Zenon
<1>4. ASSUME NEW d \in Commands, d # c
      PROVE  command'[d] = IF d \in others THEN [command[d] EXCEPT !.alone = FALSE] ELSE command[d]
  BY <1>4 DEF Begin
<1>5. /\ command' = [d \in Commands |-> command'[d]]
      /\ At(c, "idle")
      /\ UNCHANGED <<file, status, configured, harmed>>
  BY DEF Begin
<1>6. ASSUME NEW d \in Commands, d # c
      PROVE  /\ command'[d].pc = command[d].pc /\ command'[d].kind = command[d].kind
             /\ command'[d].release = command[d].release /\ command'[d].pending = command[d].pending
             /\ command'[d].then = command[d].then /\ command'[d].held = command[d].held
             /\ command'[d].token = command[d].token
             /\ command'[d].alone => command[d].alone /\ At(d, "idle")
  <2>1. command[d] \in Slots
    BY DEF CommandsInv, CommandsTypeOK
  <2>2. CASE d \in others
    <3>1. command'[d] = [command[d] EXCEPT !.alone = FALSE]
      BY <1>4, <1>6, <2>2
    <3>2. QED
      BY <2>1, <3>1 DEF Slots
  <2>3. CASE d \notin others
    <3>1. command'[d] = command[d]
      BY <1>4, <1>6, <2>3
    <3>2. QED
      BY <2>3, <3>1 DEF Active, At
  <2>4. QED
    BY <2>2, <2>3
<1>7. CommandsTypeOK'
  <2>1. ASSUME NEW d \in Commands PROVE command'[d] \in Slots
    <3>1. CASE d = c
      <4>1. [pc |-> "setup", kind |-> "run", release |-> release, pending |-> None,
             then |-> "hook", held |-> FALSE, token |-> None, alone |-> alone] \in Slots
        BY DEF Slots, Kinds
      <4>2. QED
        BY <1>3, <3>1, <4>1, Zenon
    <3>2. CASE d # c
      BY <1>4, <3>2 DEF CommandsInv, CommandsTypeOK, Slots
    <3>3. QED
      BY <3>1, <3>2
  <2>2. QED
    BY <1>5, <2>1 DEF CommandsInv, CommandsTypeOK
<1>8. PendingComplete'
  BY <1>1, <1>6 DEF CommandsInv, PendingComplete
<1>9. ChecksOfKind'
  BY <1>1, <1>6 DEF CommandsInv, ChecksOfKind, Questions, At
<1>10. AloneIsAlone'
  <2>1. command'[c].alone => others = {}
    <3>1. alone => others = {}
      BY <1>2, Zenon
    <3>2. QED
      BY <1>3, <3>1
  <2>2. command'[c].alone => \A d \in Commands \ {c} : At(d, "idle")
    BY <2>1 DEF Active
  <2>3. ASSUME NEW d \in Commands, d # c PROVE At(d, "idle")' \/ ~command'[d].alone
    BY <1>6, <2>3 DEF At
  <2>4. QED
    BY <1>6, <2>2, <2>3 DEF AloneIsAlone, Active, At
<1>11. Repairing'
  BY <1>1, <1>5, <1>6 DEF CommandsInv, Repairing, Replacing, Readable, At
<1>12. Acting'
  BY <1>1, <1>5, <1>6 DEF CommandsInv, Acting, Status, At
<1>13. Keeping'
  BY <1>1, <1>5, <1>6 DEF CommandsInv, Keeping, Readable, At
<1>14. QED
  BY <1>7, <1>8, <1>9, <1>10, <1>11, <1>12, <1>13 DEF CommandsInv

LEMMA EnsureDefaultsKeeps ==
    ASSUME CommandsInv, NEW c \in Commands, EnsureDefaults(c)
    PROVE  CommandsInv'
<1> USE DEF CommandsInv, CommandsTypeOK, Slots, EnsureDefaults, At, Active, To, Read
<1>1. CommandsTypeOK'
  BY DEF Questions
<1>2. PendingComplete'
  BY DEF PendingComplete
<1>3. ChecksOfKind'
  BY DEF ChecksOfKind, Questions
<1>4. AloneIsAlone'
  BY DEF AloneIsAlone
<1>5. Repairing'
  BY DEF Repairing, AloneIsAlone, PendingComplete, Replacing, Readable
<1>6. Acting'
  BY DEF Acting, Status, AloneIsAlone, Questions
<1>7. Keeping'
  BY DEF Keeping, PendingComplete, Replacing, Readable
<1>8. QED
  BY <1>1, <1>2, <1>3, <1>4, <1>5, <1>6, <1>7

LEMMA RemoveKeeps ==
    ASSUME CommandsInv, NEW c \in Commands, Remove(c)
    PROVE  CommandsInv'
<1> DEFINE new == [token |-> Bin, channel |-> command[c].release]
<1>1. command'[c] = [command[c] EXCEPT !.pc = "touch", !.then = "hook", !.pending = new]
  BY DEF Remove
<1>2. ASSUME NEW d \in Commands, d # c
      PROVE  command'[d] = [command[d] EXCEPT !.held = FALSE]
  BY <1>2 DEF Remove
<1>3. new \in Files
  BY CommandsAssumption DEF CommandsInv, PendingComplete, Remove, At, Files
<1>4. CommandsTypeOK'
  <2> HIDE DEF new
  <2>1. command \in [Commands -> Slots]
    BY DEF CommandsInv, CommandsTypeOK
  <2>2. command'[c] \in Slots
    <3>1. [command[c] EXCEPT !.pc = "touch", !.then = "hook", !.pending = new] \in Slots
      <4>1. command[c] \in Slots
        BY <2>1
      <4>2. QED
        BY <1>3, <4>1, PendingIsSlot
    <3>2. QED
      BY <1>1, <3>1, Zenon
  <2>3. ASSUME NEW d \in Commands, d # c PROVE command'[d] \in Slots
    BY <1>2, <2>1, <2>3, UnlinkedIsSlot
  <2>4. QED
    BY <2>2, <2>3 DEF Remove, CommandsInv, CommandsTypeOK
<1> USE DEF CommandsInv, Remove, At, Active, CommandsTypeOK, Slots
<1>5. PendingComplete'
  BY <1>3 DEF PendingComplete
<1>6. ChecksOfKind'
  BY DEF ChecksOfKind, Questions
<1>7. AloneIsAlone'
  BY DEF AloneIsAlone
<1>8. Repairing'
  BY DEF Repairing, AloneIsAlone, Replacing
<1>9. Acting'
  BY DEF Acting, Status
<1>10. Keeping'
  BY DEF Keeping
<1>11. QED
  BY <1>4, <1>5, <1>6, <1>7, <1>8, <1>9, <1>10

LEMMA TouchKeeps ==
    ASSUME CommandsInv, NEW c \in Commands, Touch(c)
    PROVE  CommandsInv'
<1> USE DEF CommandsInv, CommandsTypeOK, Slots, Touch, At, Active, To
<1>1. CommandsTypeOK'
  BY DEF Questions
<1>2. PendingComplete'
  BY DEF PendingComplete
<1>3. ChecksOfKind'
  BY DEF ChecksOfKind, Questions
<1>4. AloneIsAlone'
  BY DEF AloneIsAlone
<1>5. Repairing'
  BY DEF Repairing, AloneIsAlone, PendingComplete, Replacing, Readable
<1>6. Acting'
  BY DEF Acting, Status, AloneIsAlone, Questions
<1>7. Keeping'
  BY DEF Keeping, PendingComplete, Replacing, Readable
<1>8. QED
  BY <1>1, <1>2, <1>3, <1>4, <1>5, <1>6, <1>7

LEMMA TruncateKeeps ==
    ASSUME CommandsInv, NEW c \in Commands, Truncate(c)
    PROVE  CommandsInv'
<1> USE DEF CommandsInv, Truncate, At
<1>1. CommandsTypeOK'
  <2>1. command[c] \in Slots /\ command' = [command EXCEPT ![c] = [@ EXCEPT !.pc = "write", !.held = TRUE]]
    BY DEF CommandsTypeOK, Slots
  <2>2. [command[c] EXCEPT !.pc = "write", !.held = TRUE] \in Slots
    BY <2>1 DEF Slots, Questions
  <2>3. QED
    BY <2>1, <2>2 DEF CommandsTypeOK
<1> USE DEF CommandsTypeOK, Slots, Active
<1>2. PendingComplete'
  BY DEF PendingComplete
<1>3. ChecksOfKind'
  BY DEF ChecksOfKind, Questions
<1>4. AloneIsAlone'
  BY DEF AloneIsAlone
<1>5. Repairing'
  BY DEF Repairing, AloneIsAlone, Replacing, Readable
<1>6. Acting'
  BY DEF Acting, Status
<1>7. Keeping'
  BY DEF Keeping, Readable
<1>8. QED
  BY <1>1, <1>2, <1>3, <1>4, <1>5, <1>6, <1>7

LEMMA WriteKeeps ==
    ASSUME CommandsInv, NEW c \in Commands, Write(c)
    PROVE  CommandsInv'
<1> USE DEF CommandsInv, CommandsTypeOK, Slots, Write, At, Active, To
<1>1. CommandsTypeOK'
  <2>1. \A d \in Commands : command'[d] \in Slots
    BY IdleIsSlot DEF Questions
  <2>2. file' \in {Missing, Broken} \cup Files
    BY DEF PendingComplete
  <2>3. status' \in [Tokens \cup {None} ->
                        {"missing", "online", "stopped", "errored", "strange"}]
    BY DEF ChecksOfKind, Kinds
  <2>4. QED
    BY <2>1, <2>2, <2>3
<1>2. PendingComplete'
  BY DEF PendingComplete, Idle
<1>3. ChecksOfKind'
  BY DEF ChecksOfKind, Questions, Idle
<1>4. AloneIsAlone'
  BY DEF AloneIsAlone, Idle
<1>5. Repairing'
  BY CommandsAssumption DEF Repairing, AloneIsAlone, PendingComplete, Replacing, Readable, Idle
<1>6. Acting'
  BY DEF Acting, Status, AloneIsAlone, Questions, Idle
<1>7. Keeping'
  BY CommandsAssumption DEF Keeping, PendingComplete, Replacing, Readable, Idle
<1>8. QED
  BY <1>1, <1>2, <1>3, <1>4, <1>5, <1>6, <1>7

LEMMA SelectChannelKeeps ==
    ASSUME CommandsInv, NEW c \in Commands, SelectChannel(c)
    PROVE  CommandsInv'
<1> USE DEF CommandsInv, CommandsTypeOK, Slots, SelectChannel, At, Active, To, Read, Get
<1>1. CommandsTypeOK'
  BY DEF Questions
<1>2. PendingComplete'
  BY DEF PendingComplete
<1>3. ChecksOfKind'
  BY DEF ChecksOfKind, Questions
<1>4. AloneIsAlone'
  BY DEF AloneIsAlone
<1>5. Repairing'
  BY DEF Repairing, AloneIsAlone, PendingComplete, Replacing, Readable
<1>6. Acting'
  BY DEF Acting, Status, AloneIsAlone, Questions
<1>7. Keeping'
  BY DEF Keeping, PendingComplete, Replacing, Readable
<1>8. QED
  BY <1>1, <1>2, <1>3, <1>4, <1>5, <1>6, <1>7

LEMMA UpdateKeeps ==
    ASSUME CommandsInv, NEW c \in Commands, Update(c)
    PROVE  CommandsInv'
<1> DEFINE new == [token |-> Get("token"), channel |-> "next"]
<1> USE DEF CommandsInv
<1>1. new \in Files
  BY DEF CommandsTypeOK, Files, Get, Readable
<1>2. CommandsTypeOK'
  <2>1. command' = [command EXCEPT ![c] = [@ EXCEPT !.pc = "truncate", !.then = "parse", !.pending = new]]
    BY DEF CommandsTypeOK, Slots, Update
  <2> HIDE DEF new
  <2>2. [command[c] EXCEPT !.pc = "truncate", !.then = "parse", !.pending = new] \in Slots
    BY <1>1, PendingIsSlot DEF CommandsTypeOK
  <2>3. harmed' \in BOOLEAN /\ UNCHANGED <<file, status, configured>>
    BY DEF CommandsTypeOK, Update, Read
  <2>4. QED
    BY <2>1, <2>2, <2>3 DEF CommandsTypeOK
<1> USE DEF Update, At, CommandsTypeOK, Slots, Active, Read, Get
<1>3. PendingComplete'
  BY <1>1 DEF PendingComplete
<1>4. ChecksOfKind'
  BY DEF ChecksOfKind, Questions
<1>5. AloneIsAlone'
  BY DEF AloneIsAlone
<1>6. Repairing'
  BY DEF Repairing, AloneIsAlone, Replacing, Readable
<1>7. Acting'
  BY DEF Acting, Status
<1>8. Keeping'
  BY DEF Keeping, Replacing, Readable
<1>9. QED
  BY <1>2, <1>3, <1>4, <1>5, <1>6, <1>7, <1>8

LEMMA ParseKeeps ==
    ASSUME CommandsInv, NEW c \in Commands, Parse(c)
    PROVE  CommandsInv'
<1> USE DEF CommandsInv, At
<1>1. ASSUME NEW kind \in Kinds, NEW flag \in Flags \cup {None},
             IF flag = None THEN Read(c) ELSE UNCHANGED harmed,
             command' = [command EXCEPT ![c] =
                [Idle EXCEPT !.kind = kind, !.alone = command[c].alone,
                    !.token = IF flag = None THEN Get("token") ELSE flag,
                    !.pc = IF kind = "run" THEN "app" ELSE Head(Checks)]]
      PROVE  CommandsInv'
  <2> DEFINE token == IF flag = None THEN Get("token") ELSE flag
             pc == IF kind = "run" THEN "app" ELSE Head(Checks)
  <2>1. token \in Tokens \cup {None}
    BY CommandsAssumption DEF CommandsTypeOK, Files, Get, Readable
  <2>2. pc \in {"app", "missing"} /\ (pc = "missing" => kind # "run")
    BY DEF Checks
  <2>3. /\ command'[c] = [pc |-> pc, kind |-> kind, release |-> None, pending |-> None,
                          then |-> "hook", held |-> FALSE, token |-> token,
                          alone |-> command[c].alone]
        /\ \A d \in Commands \ {c} : command'[d] = command[d]
        /\ command' = [d \in Commands |-> command'[d]]
        /\ At(c, "parse") /\ harmed' \in BOOLEAN /\ (harmed => harmed') /\ UNCHANGED <<file, status, configured>>
    BY <1>1 DEF CommandsTypeOK, Idle, Parse, Read
  <2> HIDE DEF token, pc
  <2>4. CommandsTypeOK'
    <3>1. command'[c] \in Slots
      BY <2>1, <2>2, <2>3 DEF CommandsTypeOK, Slots, Questions
    <3>2. QED
      BY <2>3, <3>1 DEF CommandsTypeOK
  <2> USE DEF CommandsTypeOK, Slots, Active
  <2>5. PendingComplete'
    BY <2>2, <2>3 DEF PendingComplete
  <2>6. ChecksOfKind'
    BY <2>2, <2>3 DEF ChecksOfKind, Questions
  <2>7. AloneIsAlone'
    BY <2>2, <2>3 DEF AloneIsAlone
  <2>8. Repairing'
    BY <2>2, <2>3 DEF Repairing, Replacing
  <2>9. Acting'
    BY <2>2, <2>3 DEF Acting, Status
  <2>10. Keeping'
    BY <2>2, <2>3 DEF Keeping
  <2>11. QED
    BY <2>4, <2>5, <2>6, <2>7, <2>8, <2>9, <2>10
<1>2. ASSUME To(c, "error"), Read(c)
      PROVE  CommandsInv'
  <2> USE <1>2 DEF Parse, To, Read, Active
  <2>1. CommandsTypeOK'
    BY DEF CommandsTypeOK, Slots, Questions
  <2> USE DEF CommandsTypeOK, Slots
  <2>2. PendingComplete'
    BY DEF PendingComplete
  <2>3. ChecksOfKind'
    BY DEF ChecksOfKind, Questions
  <2>4. AloneIsAlone'
    BY DEF AloneIsAlone
  <2>5. Repairing'
    BY DEF Repairing, Replacing
  <2>6. Acting'
    BY DEF Acting, Status
  <2>7. Keeping'
    BY DEF Keeping
  <2>8. QED
    BY <2>1, <2>2, <2>3, <2>4, <2>5, <2>6, <2>7
<1>3. QED
  BY <1>1, <1>2 DEF Parse

LEMMA CheckKeeps ==
    ASSUME CommandsInv, NEW c \in Commands, Check(c)
    PROVE  CommandsInv'
<1> DEFINE check == command[c].pc
           pc == IF Aborts(check, Status(c)) THEN "error" ELSE After(check)
<1>1. check \in Questions
  BY DEF Check
<1>2. command[c].kind # "run"
  BY <1>1 DEF CommandsInv, ChecksOfKind
<1>3. pc \in {"error", "unknown", "stopped", "act"}
  BY <1>1, AfterEach DEF Questions
<1>4. pc \in {"unknown", "stopped"} => Status(c) # "missing"
  BY <1>1, AfterEach DEF Questions, Aborts
<1>5. command[c].alone /\ pc = "act" => Status(c) \notin {"missing", "stopped"}
  <2>1. pc = "act" => check = "stopped" /\ Status(c) # "stopped"
    BY <1>1, AfterEach DEF Questions, Aborts
  <2>2. QED
    BY <2>1 DEF CommandsInv, Acting, At
<1>6. /\ command' = [command EXCEPT ![c] = [@ EXCEPT !.pc = pc]]
      /\ UNCHANGED <<file, status, configured, harmed>>
      /\ pc # "idle"
  BY <1>3 DEF Check, To, Questions
<1> HIDE DEF pc
<1>7. CommandsTypeOK'
  <2>1. [command[c] EXCEPT !.pc = pc] \in Slots
    BY <1>3 DEF Questions, CommandsInv, CommandsTypeOK, Slots
  <2>2. QED
    BY <1>6, <2>1 DEF CommandsInv, CommandsTypeOK
<1> USE DEF CommandsInv, CommandsTypeOK, Slots, At, Active
<1>8. PendingComplete'
  BY <1>3, <1>6 DEF PendingComplete, Questions
<1>9. ChecksOfKind'
  BY <1>2, <1>6 DEF ChecksOfKind
<1>10. AloneIsAlone'
  BY <1>1, <1>6 DEF AloneIsAlone, Questions
<1>11. Repairing'
  BY <1>3, <1>6 DEF Repairing, Replacing, Questions
<1>12. Acting'
  BY <1>4, <1>5, <1>6 DEF Acting, Status
<1>13. Keeping'
  BY <1>1, <1>3, <1>6 DEF Keeping, Questions
<1>14. QED
  BY <1>7, <1>8, <1>9, <1>10, <1>11, <1>12, <1>13

LEMMA ActKeeps ==
    ASSUME CommandsInv, NEW c \in Commands, Act(c)
    PROVE  CommandsInv'
<1> USE DEF CommandsInv, CommandsTypeOK, Slots, Act, At, Active, To, Status, Becomes
<1>1. CommandsTypeOK'
  <2>1. \A d \in Commands : command'[d] \in Slots
    BY IdleIsSlot DEF Questions
  <2>2. file' \in {Missing, Broken} \cup Files
    BY DEF PendingComplete
  <2>3. status' \in [Tokens \cup {None} ->
                        {"missing", "online", "stopped", "errored", "strange"}]
    BY DEF ChecksOfKind, Kinds
  <2>4. QED
    BY <2>1, <2>2, <2>3
<1>2. PendingComplete'
  BY DEF PendingComplete, Idle
<1>3. ChecksOfKind'
  BY DEF ChecksOfKind, Questions, Idle
<1>4. AloneIsAlone'
  BY DEF AloneIsAlone, Idle
<1>5. Repairing'
  BY DEF Repairing, AloneIsAlone, PendingComplete, Replacing, Readable, Idle
<1>6. Acting'
  BY DEF Acting, Status, AloneIsAlone, Questions, Idle
<1>7. Keeping'
  BY DEF Keeping, PendingComplete, Replacing, Readable, Idle
<1>8. QED
  BY <1>1, <1>2, <1>3, <1>4, <1>5, <1>6, <1>7

LEMMA EndKeeps ==
    ASSUME CommandsInv, NEW c \in Commands, End(c)
    PROVE  CommandsInv'
<1> USE DEF CommandsInv, CommandsTypeOK, Slots, End, At, Active, To
<1>1. CommandsTypeOK'
  BY IdleIsSlot DEF Questions
<1>2. PendingComplete'
  BY DEF PendingComplete, Idle
<1>3. ChecksOfKind'
  BY DEF ChecksOfKind, Questions, Idle
<1>4. AloneIsAlone'
  BY DEF AloneIsAlone, Idle
<1>5. Repairing'
  BY DEF Repairing, AloneIsAlone, PendingComplete, Replacing, Readable, Idle
<1>6. Acting'
  BY DEF Acting, Status, AloneIsAlone, Questions, Idle
<1>7. Keeping'
  BY DEF Keeping, PendingComplete, Replacing, Readable, Idle
<1>8. QED
  BY <1>1, <1>2, <1>3, <1>4, <1>5, <1>6, <1>7

LEMMA CrashKeeps ==
    ASSUME CommandsInv, NEW c \in Commands, Crash(c)
    PROVE  CommandsInv'
<1> USE DEF CommandsInv, CommandsTypeOK, Slots, Crash, At, Active, To
<1>1. CommandsTypeOK'
  BY IdleIsSlot DEF Questions
<1>2. PendingComplete'
  BY DEF PendingComplete, Idle
<1>3. ChecksOfKind'
  BY DEF ChecksOfKind, Questions, Idle
<1>4. AloneIsAlone'
  BY DEF AloneIsAlone, Idle
<1>5. Repairing'
  BY DEF Repairing, AloneIsAlone, PendingComplete, Replacing, Readable, Idle
<1>6. Acting'
  BY DEF Acting, Status, AloneIsAlone, Questions, Idle
<1>7. Keeping'
  BY DEF Keeping, PendingComplete, Replacing, Readable, Idle
<1>8. QED
  BY <1>1, <1>2, <1>3, <1>4, <1>5, <1>6, <1>7

LEMMA Pm2Keeps ==
    ASSUME CommandsInv, NEW t \in Tokens \cup {None}, Pm2(t)
    PROVE  CommandsInv'
<1> USE DEF CommandsInv, CommandsTypeOK, Slots, Pm2, At, Active
<1>1. CommandsTypeOK'
  OBVIOUS
<1>2. PendingComplete'
  BY DEF PendingComplete
<1>3. ChecksOfKind'
  BY DEF ChecksOfKind, Questions
<1>4. AloneIsAlone'
  BY DEF AloneIsAlone
<1>5. Repairing'
  BY DEF Repairing, AloneIsAlone, PendingComplete, Replacing, Readable
<1>6. Acting'
  BY DEF Acting, Status, AloneIsAlone, Questions
<1>7. Keeping'
  BY DEF Keeping, PendingComplete, Replacing, Readable
<1>8. QED
  BY <1>1, <1>2, <1>3, <1>4, <1>5, <1>6, <1>7

-----------------------------------------------------------------------------
LEMMA InitSafe == CommandsInit => CommandsInv
<1> SUFFICES ASSUME CommandsInit PROVE CommandsInv
  OBVIOUS
<1>1. /\ CommandsTypeOK
      /\ \A c \in Commands : At(c, "idle")
      /\ configured = Bin \/ (Readable(file) /\ file.token = configured)
  <2>1. /\ file \in {Missing, Broken} \cup Files
        /\ configured = Bin \/ (Readable(file) /\ file.token = configured)
        /\ configured \in Tokens
    <3>1. ASSUME NEW token \in Tokens, NEW channel \in Releases,
                 file = [token |-> token, channel |-> channel], configured = token
          PROVE  file \in Files /\ Readable(file) /\ file.token = configured
      <4>1. file \in Files
        BY <3>1 DEF Files
      <4>2. QED
        BY <3>1, <4>1, CommandsAssumption DEF Readable
    <3>2. \/ file = Missing /\ configured = Bin
          \/ \E token \in Tokens, channel \in Releases :
                file = [token |-> token, channel |-> channel] /\ configured = token
      BY DEF CommandsInit
    <3>3. CASE file = Missing /\ configured = Bin
      BY <3>3, CommandsAssumption
    <3>4. QED
      BY <3>1, <3>2, <3>3
  <2>2. \A c \in Commands : At(c, "idle")
    BY DEF CommandsInit, At, Idle
  <2>3. /\ command \in [Commands -> Slots]
        /\ status \in [Tokens \cup {None} ->
                {"missing", "online", "stopped", "errored", "strange"}]
        /\ harmed \in BOOLEAN
    BY IdleIsSlot DEF CommandsInit
  <2>4. QED
    BY <2>1, <2>2, <2>3 DEF CommandsTypeOK
<1>2. QED
  BY <1>1 DEF CommandsInv, PendingComplete, ChecksOfKind, AloneIsAlone, Repairing, Acting,
      Keeping, Active, Replacing, Questions, At

\* One operation of any command, or of pm2, keeps the invariant.
LEMMA StepSafe == CommandsInv /\ [CommandsNext]_vars => CommandsInv'
<1> SUFFICES ASSUME CommandsInv, [CommandsNext]_vars PROVE CommandsInv'
  OBVIOUS
<1>1. ASSUME NEW c \in Commands, NEW release \in Releases, Begin(c, release)
      PROVE  CommandsInv'
  BY <1>1, BeginKeeps
<1>2. ASSUME NEW c \in Commands,
             \/ EnsureDefaults(c) \/ Remove(c) \/ Touch(c) \/ Truncate(c) \/ Write(c)
             \/ SelectChannel(c) \/ Update(c) \/ Parse(c)
             \/ Check(c) \/ Act(c) \/ End(c) \/ Crash(c)
      PROVE  CommandsInv'
  BY <1>2, EnsureDefaultsKeeps, RemoveKeeps, TouchKeeps, TruncateKeeps, WriteKeeps,
      SelectChannelKeeps, UpdateKeeps, ParseKeeps, CheckKeeps, ActKeeps, EndKeeps, CrashKeeps
<1>3. ASSUME NEW t \in Tokens \cup {None}, Pm2(t)
      PROVE  CommandsInv'
  BY <1>3, Pm2Keeps
<1>4. CASE UNCHANGED vars
  BY <1>4 DEF vars, CommandsInv, CommandsTypeOK, PendingComplete, ChecksOfKind, AloneIsAlone,
      Repairing, Acting, Keeping, Active, Replacing, Readable, Status, At
<1>5. QED
  BY <1>1, <1>2, <1>3, <1>4 DEF CommandsNext

\* Whatever overlaps and dies: the token of the file is kept unless a write was cut
\* short, mixed or read half done, and a command that runs alone repairs the file
\* and acts on no process that is missing or stopped.
THEOREM CommandsSafe ==
    CommandsSpec => [](CommandsTypeOK /\ TokenKept /\ AloneRepairs /\ AloneActs)
<1>1. CommandsInv => CommandsTypeOK /\ TokenKept /\ AloneRepairs /\ AloneActs
  BY DEF CommandsInv, TokenKept, Keeping, AloneRepairs, Repairing, AloneActs, Acting, At
<1>2. QED
  BY InitSafe, StepSafe, <1>1, PTL DEF CommandsSpec

=============================================================================
