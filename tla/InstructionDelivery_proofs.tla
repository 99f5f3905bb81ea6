-------------------- MODULE InstructionDelivery_proofs ----------------------
(***************************************************************************)
(* Proofs about the delivery of instructions, for any fleet, any number of *)
(* instructions and any number of faults: that each is carried out once,   *)
(* where it is meanwhile, what wakes a machine and what silences it, and   *)
(* that the whole implements the promise made to the console               *)
(* (InstructionPromise).                                                   *)
(***************************************************************************)
EXTENDS InstructionDelivery, TLAPS

USE DEF Machines, Modes, Phases, Loops, Beating, rows, server, beats, batch, running, ghosts

\* What a batch leaves behind is a state, whatever it held.
LEMMA AfterType == ASSUME NEW k, NEW st \in Modes PROVE After(k, st) \in Modes
BY DEF After

\* The end of a process keeps every variable it touches in its type.
LEMMA EndsType ==
    ASSUME TypeOK, NEW m \in Machines, Ends(m)
    PROVE  /\ phase' \in [Machines -> Phases]
           /\ loop' \in [Machines -> Loops]
           /\ signal' \in [Machines -> BOOLEAN]
           /\ missed' \in [Machines -> SUBSET Instructions]
           /\ reply' \in [Machines -> SUBSET Instructions]
           /\ zoneCommands' \in [Machines -> SUBSET Instructions]
           /\ todo' \in [Machines -> SUBSET Instructions]
           /\ answering' \in [Machines -> Instructions \union {NoInstruction}]
           /\ leaving' \in [Machines -> BOOLEAN]
           /\ settings' \in [Machines -> Modes]
           /\ lost' \in SUBSET Instructions
<1>1. phase' \in [Machines -> Phases] BY DEF TypeOK, Ends
<1>2. loop' \in [Machines -> Loops] BY DEF TypeOK, Ends
<1>3. signal' \in [Machines -> BOOLEAN] BY DEF Ends
<1>4. /\ missed' \in [Machines -> SUBSET Instructions]
      /\ reply' \in [Machines -> SUBSET Instructions]
      /\ zoneCommands' \in [Machines -> SUBSET Instructions]
      /\ todo' \in [Machines -> SUBSET Instructions]
  BY DEF TypeOK, Ends
<1>5. answering' \in [Machines -> Instructions \union {NoInstruction}] BY DEF TypeOK, Ends
<1>6. leaving' \in [Machines -> BOOLEAN] /\ settings' \in [Machines -> Modes]
  BY DEF TypeOK, Ends
<1>7. lost' \in SUBSET Instructions BY DEF TypeOK, Ends
<1>8. QED BY <1>1, <1>2, <1>3, <1>4, <1>5, <1>6, <1>7

-----------------------------------------------------------------------------
(* Types. *)

\* Every step of a machine or the console keeps every variable in its type.
LEMMA TypeStep == TypeOK /\ [Next]_vars => TypeOK'
<1> SUFFICES ASSUME TypeOK, [Next]_vars PROVE TypeOK'
  OBVIOUS
<1>u. CASE UNCHANGED vars BY <1>u DEF TypeOK, vars
<1>a. ASSUME NEW i \in Instructions, NEW m \in Machines, NEW k \in AskedKinds, Ask(i, m, k)
      PROVE TypeOK'
  <2>1. k \in Kinds BY DeliveryAssumption
  <2>2. QED BY <1>a, <2>1 DEF TypeOK, Ask
<1>b. ASSUME NEW i \in Instructions, Wake(i) PROVE TypeOK'
  BY <1>b DEF TypeOK, Wake
<1>1. ASSUME NEW m \in Machines, Beat(m) PROVE TypeOK'
  <2>1. CASE Subscribe(m) BY <2>1 DEF TypeOK, Subscribe
  <2>2. CASE Check(m) BY <2>2 DEF TypeOK, Check
  <2>3. CASE Hold(m) 
    <3>1. WaitsFor(m) \ waking \in SUBSET Instructions
      BY DeliveryAssumption DEF TypeOK, WaitsFor
    <3>2. QED BY <2>3, <3>1 DEF TypeOK, Hold
  <2>4. CASE Woke(m) BY <2>4 DEF TypeOK, Woke, StopsListening
  <2>5. CASE BeatExpires(m) BY <2>5 DEF TypeOK, BeatExpires, StopsListening
  <2>6. QED BY <1>1, <2>1, <2>2, <2>3, <2>4, <2>5 DEF Beat
<1>2. ASSUME NEW m \in Machines, Poll(m) PROVE TypeOK'
  <2>1. WaitsFor(m) \in SUBSET Instructions
    BY DeliveryAssumption DEF TypeOK, WaitsFor
  <2>2. CASE PollServer(m) BY <2>1, <2>2 DEF TypeOK, PollServer
  <2>3. CASE PollRelay(m) BY <2>1, <2>3 DEF TypeOK, PollRelay
  <2>4. QED BY <1>2, <2>2, <2>3 DEF Poll
<1>3. ASSUME NEW m \in Machines, ReplyArrives(m) PROVE TypeOK'
  BY <1>3 DEF TypeOK, ReplyArrives
<1>4. ASSUME NEW m \in Machines, BootWithoutPoll(m) PROVE TypeOK'
  BY <1>4 DEF TypeOK, BootWithoutPoll
<1>5. ASSUME NEW m \in Machines, Apply(m) PROVE TypeOK'
  <2>1. CASE \E i \in Instructions : Carry(m, i)
    <3>1. PICK i \in Instructions : Carry(m, i) BY <2>1
    <3>2. settings' \in [Machines -> Modes]
      BY <3>1, AfterType DEF TypeOK, Carry
    <3>3. mode' \in [Machines -> Modes] /\ file' \in [Machines -> Modes]
      BY <3>1, <3>2 DEF TypeOK, Carry
    <3>4. leaving' \in [Machines -> BOOLEAN] BY <3>1 DEF TypeOK, Carry
    <3>5. QED BY <3>1, <3>2, <3>3, <3>4 DEF TypeOK, Carry
  <2>2. CASE Answer(m)
    <3>1. answering[m] \in Instructions BY <2>2 DEF TypeOK, Answer
    <3>2. QED BY <2>2, <3>1 DEF TypeOK, Answer
  <2>3. CASE AnswerLost(m) BY <2>3 DEF TypeOK, AnswerLost
  <2>4. CASE BatchDone(m)
    <3>1. mode' \in [Machines -> Modes] /\ file' \in [Machines -> Modes]
      BY <2>4 DEF TypeOK, BatchDone
    <3>2. CASE Ends(m) BY <2>4, <3>1, <3>2, EndsType DEF TypeOK, BatchDone
    <3>3. CASE ~Ends(m) BY <2>4, <3>1, <3>3 DEF TypeOK, BatchDone
    <3>4. QED BY <3>2, <3>3
  <2>5. QED BY <1>5, <2>1, <2>2, <2>3, <2>4 DEF Apply
<1>6. ASSUME NEW m \in Machines, Start(m) PROVE TypeOK'
  BY <1>6 DEF TypeOK, Start
<1>7. ASSUME NEW m \in Machines, Fault(m) PROVE TypeOK'
  <2>1. CASE BeatDropped(m)
    BY <2>1, DeliveryAssumption DEF TypeOK, BeatDropped, StopsListening
  <2>2. CASE ReplyLost(m) BY <2>2, DeliveryAssumption DEF TypeOK, ReplyLost
  <2>3. CASE Crash(m) BY <2>3, EndsType, DeliveryAssumption DEF TypeOK, Crash
  <2>4. QED BY <1>7, <2>1, <2>2, <2>3 DEF Fault
<1>8. ASSUME NEW m \in Machines, Shell(m) PROVE TypeOK'
  <2>1. CASE ShellResume(m) BY <2>1 DEF TypeOK, ShellResume
  <2>2. CASE ShellRestart(m) BY <2>2, EndsType DEF TypeOK, ShellRestart
  <2>3. QED BY <1>8, <2>1, <2>2 DEF Shell
<1>9. QED
  BY <1>u, <1>a, <1>b, <1>1, <1>2, <1>3, <1>4, <1>5, <1>6, <1>7, <1>8
  DEF Next, Console, Turn

\* Every variable keeps its type along every execution.
THEOREM Types == Spec => []TypeOK
<1>1. Init => TypeOK BY DeliveryAssumption DEF Init, TypeOK, Kinds
<1>2. QED BY <1>1, TypeStep, PTL DEF Spec

-----------------------------------------------------------------------------
(* Where an instruction is, spelled out place by place. *)

\* No instruction is in two places.
Apart == \A i \in Instructions, m, n \in Machines :
    /\ i \in reply[m] /\ i \in reply[n] => m = n
    /\ i \in zoneCommands[m] /\ i \in zoneCommands[n] => m = n
    /\ i \in todo[m] /\ i \in todo[n] => m = n
    /\ i \in reply[m] => i \notin zoneCommands[n] /\ i \notin todo[n]
    /\ i \in zoneCommands[m] => i \notin todo[n]

Placed(i) == \E m \in Machines : i \in reply[m] \/ i \in zoneCommands[m] \/ i \in todo[m]

\* What is in a place was handed over, and nothing became of it yet.
Fresh == \A i \in Instructions :
    Placed(i) => i \in delivered /\ times[i] = 0 /\ i \notin lost

Somewhere == \A i \in Instructions :
    i \in delivered => times[i] = 1 \/ i \in lost \/ Placed(i)

\* The two halves of InOnePlace, place by place.
LEMMA PlacesApart == InOnePlace <=> Apart /\ Fresh
<1>1. InOnePlace => Apart
  <2>1. {"reply", "relay", "todo"} = Places BY DEF Places
  <2>2. QED BY <2>1 DEF InOnePlace, At, Apart
<1>2. InOnePlace => Fresh
  BY DEF InOnePlace, At, Fresh, Placed, Places
<1>3. Apart /\ Fresh => InOnePlace
  BY DEF InOnePlace, At, Apart, Fresh, Placed, Places
<1>4. QED BY <1>1, <1>2, <1>3

\* NothingVanishes with its places named.
LEMMA NothingSomewhere == NothingVanishes <=> Somewhere
BY DEF NothingVanishes, Somewhere, Placed, At, Places

\* The inductive invariant.
IInv ==
    /\ TypeOK
    /\ Bookkeeping
    /\ Apart
    /\ Fresh
    /\ Somewhere
    /\ CarriedOnce
    /\ AnsweredByItsMachine

-----------------------------------------------------------------------------
(* Step by step. *)

\* What a step that only moves a beat, a state or a process leaves untouched.
Quiet ==
    /\ UNCHANGED <<rows, reply, zoneCommands, todo, answering, times, by, lost>>
    /\ \A m \in Machines :
          \/ loop'[m] = loop[m]
          \/ loop[m] \notin {"polling", "applying"}
          \/ loop[m] = "applying" /\ todo[m] = {} /\ answering[m] = NoInstruction

\* A step that moves no instruction disturbs nothing.
LEMMA QuietStep == ASSUME IInv, TypeOK', Quiet PROVE IInv'
<1>1. Bookkeeping' BY DEF IInv, Quiet, Bookkeeping, Asked, SpokenFor, ZoneOf, TypeOK
<1>2. Apart' BY DEF IInv, Quiet, Apart
<1>3. Fresh' BY DEF IInv, Quiet, Fresh, Placed
<1>4. Somewhere' BY DEF IInv, Quiet, Somewhere, Placed
<1>5. CarriedOnce' BY DEF IInv, Quiet, CarriedOnce
<1>6. AnsweredByItsMachine' BY DEF IInv, Quiet, AnsweredByItsMachine
<1>7. QED BY <1>1, <1>2, <1>3, <1>4, <1>5, <1>6 DEF IInv

\* A new row is nowhere yet.
LEMMA AskStep == ASSUME IInv, TypeOK', NEW i \in Instructions, NEW m \in Machines, NEW k \in AskedKinds, Ask(i, m, k) PROVE IInv'
<1>1. i \notin delivered
  BY DeliveryAssumption DEF IInv, Asked, Ask, Bookkeeping
<1>2. \A n \in Machines : i \notin reply[n] /\ i \notin zoneCommands[n] /\ i \notin todo[n]
  BY <1>1, DeliveryAssumption DEF IInv, Asked, Fresh, Placed
<1>3. \A n \in Machines : <<n, i>> \notin by
  BY <1>1, <1>2, DeliveryAssumption DEF IInv, Asked, Bookkeeping
<1>4. <<agent[i], i>> \notin by
  BY <1>1, <1>2, <1>3, DeliveryAssumption DEF IInv, Asked, Ask, TypeOK
<1>5. i \notin answered
  BY <1>1, <1>2, <1>3, <1>4, DeliveryAssumption DEF IInv, Asked, Ask, AnsweredByItsMachine, TypeOK
<1>6. Bookkeeping'
  BY <1>1, <1>2, <1>3, <1>4, <1>5, DeliveryAssumption DEF IInv, TypeOK, Ask, Bookkeeping, Asked, SpokenFor, ZoneOf
<1>7. Apart'
  BY <1>1, <1>2, <1>3, <1>4, <1>5, DeliveryAssumption DEF IInv, TypeOK, Ask, Apart
<1>8. Fresh'
  BY <1>1, <1>2, <1>3, <1>4, <1>5, DeliveryAssumption DEF IInv, TypeOK, Ask, Fresh, Placed
<1>9. Somewhere'
  BY <1>1, <1>2, <1>3, <1>4, <1>5, DeliveryAssumption DEF IInv, TypeOK, Ask, Somewhere, Placed
<1>10. CarriedOnce'
  BY <1>1, <1>2, <1>3, <1>4, <1>5, DeliveryAssumption DEF IInv, TypeOK, Ask, CarriedOnce
<1>11. AnsweredByItsMachine'
  BY <1>1, <1>2, <1>3, <1>4, <1>5, DeliveryAssumption DEF IInv, TypeOK, Ask, AnsweredByItsMachine
<1>12. QED BY <1>6, <1>7, <1>8, <1>9, <1>10, <1>11 DEF IInv

\* What the server hands over was nowhere: it had not been delivered.
LEMMA PollServerStep == ASSUME IInv, TypeOK', NEW m \in Machines, PollServer(m) PROVE IInv'
<1>1. Bookkeeping'
  BY DeliveryAssumption DEF IInv, TypeOK, PollServer, Bookkeeping, Asked, SpokenFor, ZoneOf, Polls, WaitsFor, Undelivered
<1>2. Apart'
  BY DeliveryAssumption DEF IInv, TypeOK, PollServer, Apart, Fresh, Placed, WaitsFor, Undelivered
<1>3. Fresh'
  BY DeliveryAssumption DEF IInv, TypeOK, PollServer, Fresh, Placed, Bookkeeping, CarriedOnce,WaitsFor, Undelivered
<1>4. Somewhere'
  BY DeliveryAssumption DEF IInv, TypeOK, PollServer, Somewhere, Placed, Bookkeeping, Polls, WaitsFor, Undelivered
<1>5. CarriedOnce'
  BY DeliveryAssumption DEF IInv, TypeOK, PollServer, CarriedOnce
<1>6. AnsweredByItsMachine'
  BY DeliveryAssumption DEF IInv, TypeOK, PollServer, AnsweredByItsMachine
<1>7. QED BY <1>1, <1>2, <1>3, <1>4, <1>5, <1>6 DEF IInv

\* What a relay hands over leaves its memory in the same step.
LEMMA PollRelayStep == ASSUME IInv, TypeOK', NEW m \in Machines, PollRelay(m) PROVE IInv'
<1>1. Bookkeeping'
  BY DeliveryAssumption DEF IInv, TypeOK, PollRelay, Bookkeeping, Asked, SpokenFor, ZoneOf, Polls, WaitsFor
<1>2. Apart'
  BY DeliveryAssumption DEF IInv, TypeOK, PollRelay, Apart, WaitsFor
<1>3. Fresh'
  BY DeliveryAssumption DEF IInv, TypeOK, PollRelay, Fresh, Placed, WaitsFor
<1>4. Somewhere'
  BY DeliveryAssumption DEF IInv, TypeOK, PollRelay, Somewhere, Placed, Bookkeeping, Polls, WaitsFor
<1>5. CarriedOnce'
  BY DeliveryAssumption DEF IInv, TypeOK, PollRelay, CarriedOnce
<1>6. AnsweredByItsMachine'
  BY DeliveryAssumption DEF IInv, TypeOK, PollRelay, AnsweredByItsMachine
<1>7. QED BY <1>1, <1>2, <1>3, <1>4, <1>5, <1>6 DEF IInv

\* A reply is split between the relay's memory and its own batch.
LEMMA ReplyArrivesStep == ASSUME IInv, TypeOK', NEW m \in Machines, ReplyArrives(m) PROVE IInv'
<1>1. Bookkeeping'
  BY DeliveryAssumption DEF IInv, TypeOK, ReplyArrives, Bookkeeping, Asked, SpokenFor, ZoneOf
<1>2. Apart'
  BY DeliveryAssumption DEF IInv, TypeOK, ReplyArrives, Apart, Bookkeeping
<1>3. Fresh'
  BY DeliveryAssumption DEF IInv, TypeOK, ReplyArrives, Fresh, Placed
<1>4. Somewhere'
  BY DeliveryAssumption DEF IInv, TypeOK, ReplyArrives, Somewhere, Placed, Bookkeeping
<1>5. CarriedOnce'
  BY DeliveryAssumption DEF IInv, TypeOK, ReplyArrives, CarriedOnce
<1>6. AnsweredByItsMachine'
  BY DeliveryAssumption DEF IInv, TypeOK, ReplyArrives, AnsweredByItsMachine
<1>7. QED BY <1>1, <1>2, <1>3, <1>4, <1>5, <1>6 DEF IInv

\* A lost reply is lost with everything it carried.
LEMMA ReplyLostStep == ASSUME IInv, TypeOK', NEW m \in Machines, ReplyLost(m) PROVE IInv'
<1>1. Bookkeeping'
  BY DeliveryAssumption DEF IInv, TypeOK, ReplyLost, Bookkeeping, Asked, SpokenFor, ZoneOf, Fresh, Placed
<1>2. Apart'
  BY DeliveryAssumption DEF IInv, TypeOK, ReplyLost, Apart
<1>3. Fresh'
  BY DeliveryAssumption DEF IInv, TypeOK, ReplyLost, Fresh, Placed, Apart
<1>4. Somewhere'
  BY DeliveryAssumption DEF IInv, TypeOK, ReplyLost, Somewhere, Placed
<1>5. CarriedOnce'
  BY DeliveryAssumption DEF IInv, TypeOK, ReplyLost, CarriedOnce, Fresh, Placed
<1>6. AnsweredByItsMachine'
  BY DeliveryAssumption DEF IInv, TypeOK, ReplyLost, AnsweredByItsMachine
<1>7. QED BY <1>1, <1>2, <1>3, <1>4, <1>5, <1>6 DEF IInv

\* What is carried out leaves the batch, once.
LEMMA CarryStep == ASSUME IInv, TypeOK', NEW m \in Machines, NEW i \in Instructions, Carry(m, i) PROVE IInv'
<1>1. i \in delivered /\ agent[i] = m
  BY DeliveryAssumption DEF IInv, Asked, Carry, TypeOK, Bookkeeping, Fresh, Placed
<1>2. \A n \in Machines, j \in Instructions : <<n, j>> \in by' <=> <<n, j>> \in by \/ (n = m /\ j = i)
  BY <1>1, DeliveryAssumption DEF IInv, Asked, Carry, TypeOK
<1>3. Bookkeeping'
  <2>1. ASSUME NEW n \in Machines
        PROVE  /\ loop'[n] # "polling" => reply'[n] = {}
               /\ loop'[n] # "applying" => todo'[n] = {} /\ answering'[n] = NoInstruction
               /\ \A j \in reply'[n] : agent'[j] \in SpokenFor(n)
               /\ \A j \in zoneCommands'[n] : agent'[j] \in ZoneOf(n)
               /\ \A j \in todo'[n] : agent'[j] = n
    BY DEF IInv, TypeOK, Carry, Bookkeeping
  <2>2. ASSUME NEW n \in Machines, answering'[n] # NoInstruction
        PROVE  <<n, answering'[n]>> \in by'
    BY <1>2, <2>2 DEF IInv, TypeOK, Carry, Bookkeeping
  <2>3. ASSUME NEW j \in Instructions
        PROVE  /\ agent'[j] = NoMachine => j \notin delivered'
               /\ j \notin delivered' => times'[j] = 0
               /\ j \in lost' => j \in delivered'
    BY <1>1 DEF IInv, TypeOK, Carry, Bookkeeping, Asked
  <2>4. ASSUME NEW n \in Machines, NEW j \in Instructions, <<n, j>> \in by'
        PROVE  j \in delivered' /\ times'[j] > 0
    BY <1>1, <1>2, <2>4 DEF IInv, TypeOK, Carry, Bookkeeping
  <2>5. QED BY <2>1, <2>2, <2>3, <2>4 DEF Bookkeeping, Asked, SpokenFor, ZoneOf
<1>4. Apart'
  BY <1>1, <1>2, DeliveryAssumption DEF IInv, TypeOK, Carry, Apart
<1>5. Fresh'
  BY <1>1, <1>2, DeliveryAssumption DEF IInv, TypeOK, Carry, Fresh, Placed, Apart
<1>6. Somewhere'
  BY <1>1, <1>2, DeliveryAssumption DEF IInv, TypeOK, Carry, Somewhere, Placed, Fresh
<1>7. CarriedOnce'
  BY <1>1, <1>2, DeliveryAssumption DEF IInv, TypeOK, Carry, CarriedOnce, Fresh, Placed
<1>8. AnsweredByItsMachine'
  BY <1>1, <1>2, DeliveryAssumption DEF IInv, TypeOK, Carry, AnsweredByItsMachine, Bookkeeping
<1>9. QED BY <1>3, <1>4, <1>5, <1>6, <1>7, <1>8 DEF IInv

\* Only what was carried out is answered.
LEMMA AnswerStep == ASSUME IInv, TypeOK', NEW m \in Machines, Answer(m) PROVE IInv'
<1>1. Bookkeeping'
  BY DeliveryAssumption DEF IInv, TypeOK, Answer, Bookkeeping, Asked, SpokenFor, ZoneOf
<1>2. Apart'
  BY DeliveryAssumption DEF IInv, TypeOK, Answer, Apart
<1>3. Fresh'
  BY DeliveryAssumption DEF IInv, TypeOK, Answer, Fresh, Placed
<1>4. Somewhere'
  BY DeliveryAssumption DEF IInv, TypeOK, Answer, Somewhere, Placed
<1>5. CarriedOnce'
  BY DeliveryAssumption DEF IInv, TypeOK, Answer, CarriedOnce
<1>6. AnsweredByItsMachine'
  BY DeliveryAssumption DEF IInv, TypeOK, Answer, AnsweredByItsMachine, Bookkeeping
<1>7. QED BY <1>1, <1>2, <1>3, <1>4, <1>5, <1>6 DEF IInv

\* An answer that does not arrive changes nothing else.
LEMMA AnswerLostStep == ASSUME IInv, TypeOK', NEW m \in Machines, AnswerLost(m) PROVE IInv'
<1>1. Bookkeeping'
  BY DeliveryAssumption DEF IInv, TypeOK, AnswerLost, Bookkeeping, Asked, SpokenFor, ZoneOf
<1>2. Apart'
  BY DeliveryAssumption DEF IInv, TypeOK, AnswerLost, Apart
<1>3. Fresh'
  BY DeliveryAssumption DEF IInv, TypeOK, AnswerLost, Fresh, Placed
<1>4. Somewhere'
  BY DeliveryAssumption DEF IInv, TypeOK, AnswerLost, Somewhere, Placed
<1>5. CarriedOnce'
  BY DeliveryAssumption DEF IInv, TypeOK, AnswerLost, CarriedOnce
<1>6. AnsweredByItsMachine'
  BY DeliveryAssumption DEF IInv, TypeOK, AnswerLost, AnsweredByItsMachine
<1>7. QED BY <1>1, <1>2, <1>3, <1>4, <1>5, <1>6 DEF IInv

\* A process that ends takes along all it held, and nothing of another's.
LEMMA EndsStep == ASSUME IInv, TypeOK', NEW m \in Machines, Ends(m), UNCHANGED <<rows, times, by>> PROVE IInv'
<1>1. Bookkeeping'
  BY DeliveryAssumption DEF IInv, TypeOK, Ends, Bookkeeping, Asked, SpokenFor, ZoneOf, Cut, Fresh, Placed
<1>2. Apart'
  BY DeliveryAssumption DEF IInv, TypeOK, Ends, Apart
<1>3. Fresh'
  BY DeliveryAssumption DEF IInv, TypeOK, Ends, Fresh, Placed, Apart
<1>4. Somewhere'
  BY DeliveryAssumption DEF IInv, TypeOK, Ends, Somewhere, Placed
<1>5. CarriedOnce'
  BY DeliveryAssumption DEF IInv, TypeOK, Ends, CarriedOnce, Fresh, Placed
<1>6. AnsweredByItsMachine'
  BY DeliveryAssumption DEF IInv, TypeOK, Ends, AnsweredByItsMachine
<1>7. QED BY <1>1, <1>2, <1>3, <1>4, <1>5, <1>6 DEF IInv

-----------------------------------------------------------------------------
(* The invariant, and what it is for. *)

\* The empty system satisfies the invariant.
LEMMA Initially == Init => IInv
<1>1. Init => TypeOK BY DeliveryAssumption DEF Init, TypeOK, Kinds
<1>2. Init => Apart /\ Fresh /\ Somewhere /\ CarriedOnce /\ AnsweredByItsMachine
  BY DEF Init, Apart, Fresh, Somewhere, Placed, CarriedOnce, AnsweredByItsMachine
<1>3. Init => Bookkeeping BY DEF Init, Bookkeeping, Asked
<1>4. QED BY <1>1, <1>2, <1>3 DEF IInv

\* Every step preserves the invariant.
LEMMA Inductive == IInv /\ [Next]_vars => IInv'
<1> SUFFICES ASSUME IInv, [Next]_vars PROVE IInv'
  OBVIOUS
<1>t. TypeOK' BY TypeStep DEF IInv
<1>q. Quiet => IInv' BY <1>t, QuietStep
<1>u. CASE UNCHANGED vars BY <1>q, <1>u DEF Quiet, vars
<1>a. ASSUME NEW i \in Instructions, NEW m \in Machines, NEW k \in AskedKinds, Ask(i, m, k)
      PROVE IInv'
  BY <1>a, <1>t, AskStep
<1>b. ASSUME NEW i \in Instructions, Wake(i) PROVE IInv'
  BY <1>b, <1>q DEF Wake, Quiet
<1>1. ASSUME NEW m \in Machines, Beat(m) PROVE IInv'
  <2>1. CASE Subscribe(m) BY <1>q, <2>1 DEF IInv, TypeOK, Subscribe, CanAsk, Quiet
  <2>2. CASE Check(m) BY <1>q, <2>2 DEF IInv, TypeOK, Check, CanAsk, Quiet
  <2>3. CASE Hold(m) BY <1>q, <2>3 DEF IInv, TypeOK, Hold, Quiet
  <2>4. CASE Woke(m) BY <1>q, <2>4 DEF IInv, TypeOK, Woke, StopsListening, Quiet
  <2>5. CASE BeatExpires(m) BY <1>q, <2>5 DEF IInv, TypeOK, BeatExpires, StopsListening, Quiet
  <2>6. QED BY <1>1, <2>1, <2>2, <2>3, <2>4, <2>5 DEF Beat
<1>2. ASSUME NEW m \in Machines, Poll(m) PROVE IInv'
  BY <1>2, <1>t, PollServerStep, PollRelayStep DEF Poll
<1>3. ASSUME NEW m \in Machines, ReplyArrives(m) PROVE IInv'
  BY <1>3, <1>t, ReplyArrivesStep
<1>4. ASSUME NEW m \in Machines, BootWithoutPoll(m) PROVE IInv'
  BY <1>4, <1>q DEF BootWithoutPoll, Quiet
<1>5. ASSUME NEW m \in Machines, Apply(m) PROVE IInv'
  <2>1. CASE \E i \in Instructions : Carry(m, i) BY <2>1, <1>t, CarryStep
  <2>2. CASE Answer(m) BY <2>2, <1>t, AnswerStep
  <2>3. CASE AnswerLost(m) BY <2>3, <1>t, AnswerLostStep
  <2>4. CASE BatchDone(m)
    <3>1. CASE Ends(m) BY <2>4, <3>1, <1>t, EndsStep DEF BatchDone
    <3>2. CASE ~Ends(m) BY <2>4, <3>2, <1>q DEF IInv, TypeOK, Bookkeeping, BatchDone, Quiet
    <3>3. QED BY <3>1, <3>2
  <2>5. QED BY <1>5, <2>1, <2>2, <2>3, <2>4 DEF Apply
<1>6. ASSUME NEW m \in Machines, Start(m) PROVE IInv'
  BY <1>6, <1>q DEF Start, Quiet
<1>7. ASSUME NEW m \in Machines, Fault(m) PROVE IInv'
  <2>1. CASE BeatDropped(m) BY <1>q, <2>1 DEF IInv, TypeOK, BeatDropped, StopsListening, Quiet
  <2>2. CASE ReplyLost(m) BY <2>2, <1>t, ReplyLostStep
  <2>3. CASE Crash(m) BY <2>3, <1>t, EndsStep DEF Crash
  <2>4. QED BY <1>7, <2>1, <2>2, <2>3 DEF Fault
<1>8. ASSUME NEW m \in Machines, Shell(m) PROVE IInv'
  <2>1. CASE ShellResume(m) BY <2>1, <1>q DEF ShellResume, Quiet
  <2>2. CASE ShellRestart(m) BY <2>2, <1>t, EndsStep DEF ShellRestart
  <2>3. QED BY <1>8, <2>1, <2>2 DEF Shell
<1>9. QED
  BY <1>u, <1>a, <1>b, <1>1, <1>2, <1>3, <1>4, <1>5, <1>6, <1>7, <1>8
  DEF Next, Console, Turn

\* The invariant holds along every execution.
LEMMA Always == Spec => []IInv
BY Initially, Inductive, PTL DEF Spec

\* No instruction is carried out twice, and none that was never handed over or
\* was lost: "once is the promise" of GET /agent/jobs, for any fleet and any
\* number of crashes and lost replies.
THEOREM OncePromise == Spec => []CarriedOnce
<1>1. IInv => CarriedOnce BY DEF IInv
<1>2. QED BY <1>1, Always, PTL

\* Replies, relays and batches never hold two copies of an instruction.
THEOREM OnePlace == Spec => []InOnePlace
<1>1. IInv => InOnePlace BY PlacesApart DEF IInv
<1>2. QED BY <1>1, Always, PTL

\* An answer in the console is the answer of the machine that was asked.
THEOREM RightAnswer == Spec => []AnsweredByItsMachine
<1>1. IInv => AnsweredByItsMachine BY DEF IInv
<1>2. QED BY <1>1, Always, PTL

\* What was handed over is somewhere, was carried out, or died with a process
\* or a reply.
THEOREM NothingLost == Spec => []NothingVanishes
<1>1. IInv => NothingVanishes BY NothingSomewhere DEF IInv
<1>2. QED BY <1>1, Always, PTL

-----------------------------------------------------------------------------
(* What wakes a machine and what silences it. *)

\* A process that is down has no loop, and one that started stopped never
\* leaves the top of it.
Silent ==
    /\ \A m \in Machines : phase[m] = "down" => loop[m] = "idle"
    /\ \A m \in Machines \ Relays :
          phase[m] # "down" /\ booted[m] = "stopped" => mode[m] = "stopped" /\ loop[m] = "idle"

\* A machine that booted stopped has nothing under way that could resume it.
LEMMA SilentStep == IInv /\ Silent /\ [Next]_vars => Silent'
<1> SUFFICES ASSUME IInv, Silent, [Next]_vars PROVE Silent'
  OBVIOUS
<1> USE DEF IInv, TypeOK, Silent
<1>u. CASE UNCHANGED vars BY <1>u DEF vars
<1>e. ASSUME NEW m \in Machines, Ends(m), UNCHANGED booted,
             \A n \in Machines : n # m => mode'[n] = mode[n]
      PROVE Silent'
  BY <1>e DEF Ends, Cut
<1>a. ASSUME NEW i \in Instructions, NEW m \in Machines, NEW k \in AskedKinds, Ask(i, m, k)
      PROVE Silent'
  BY <1>a DEF Ask
<1>b. ASSUME NEW i \in Instructions, Wake(i) PROVE Silent'
  BY <1>b DEF Wake
<1>1. ASSUME NEW m \in Machines, Beat(m) PROVE Silent'
  <2>1. CASE Subscribe(m) BY <2>1 DEF Subscribe, CanAsk
  <2>2. CASE Check(m) BY <2>2 DEF Check, CanAsk
  <2>3. CASE Hold(m) BY <2>3 DEF Hold
  <2>4. CASE Woke(m) BY <2>4 DEF Woke, StopsListening
  <2>5. CASE BeatExpires(m) BY <2>5 DEF BeatExpires, StopsListening
  <2>6. QED BY <1>1, <2>1, <2>2, <2>3, <2>4, <2>5 DEF Beat
<1>2. ASSUME NEW m \in Machines, Poll(m) PROVE Silent'
  <2>1. CASE PollServer(m) BY <2>1 DEF PollServer, Polls
  <2>2. CASE PollRelay(m) BY <2>2 DEF PollRelay, Polls
  <2>3. QED BY <1>2, <2>1, <2>2 DEF Poll
<1>3. ASSUME NEW m \in Machines, ReplyArrives(m) PROVE Silent'
  BY <1>3 DEF ReplyArrives
<1>4. ASSUME NEW m \in Machines, BootWithoutPoll(m) PROVE Silent'
  BY <1>4 DEF BootWithoutPoll
<1>5. ASSUME NEW m \in Machines, Apply(m) PROVE Silent'
  <2>1. CASE \E i \in Instructions : Carry(m, i) BY <2>1 DEF Carry
  <2>2. CASE Answer(m) BY <2>2 DEF Answer
  <2>3. CASE AnswerLost(m) BY <2>3 DEF AnswerLost
  <2>4. CASE BatchDone(m)
    <3>1. CASE Ends(m) BY <1>e, <2>4, <3>1 DEF BatchDone
    <3>2. CASE ~Ends(m) BY <2>4, <3>2 DEF BatchDone
    <3>3. QED BY <3>1, <3>2
  <2>5. QED BY <1>5, <2>1, <2>2, <2>3, <2>4 DEF Apply
<1>6. ASSUME NEW m \in Machines, Start(m) PROVE Silent'
  BY <1>6 DEF Start
<1>7. ASSUME NEW m \in Machines, Fault(m) PROVE Silent'
  <2>1. CASE BeatDropped(m) BY <2>1 DEF BeatDropped, StopsListening
  <2>2. CASE ReplyLost(m) BY <2>2 DEF ReplyLost
  <2>3. CASE Crash(m) BY <1>e, <2>3 DEF Crash
  <2>4. QED BY <1>7, <2>1, <2>2, <2>3 DEF Fault
<1>8. ASSUME NEW m \in Machines, Shell(m) PROVE Silent'
  <2>1. CASE ShellResume(m) BY <2>1 DEF ShellResume
  <2>2. CASE ShellRestart(m) BY <1>e, <2>2 DEF ShellRestart
  <2>3. QED BY <1>8, <2>1, <2>2 DEF Shell
<1>9. QED
  BY <1>u, <1>a, <1>b, <1>1, <1>2, <1>3, <1>4, <1>5, <1>6, <1>7, <1>8
  DEF Next, Console, Turn

\* An agent that was stopped when its process started stays stopped as long as
\* that process lives: nothing the console asks can reach it.
THEOREM StopIsFinal == Spec => []StoppedAgentStaysStopped
<1>1. Init => Silent BY DEF Init, Silent
<1>2. Silent => StoppedAgentStaysStopped
  BY DEF Silent, StoppedAgentStaysStopped, StaysStopped
<1>3. QED BY <1>1, <1>2, Always, SilentStep, PTL DEF Spec

-----------------------------------------------------------------------------
(* Wakeups. *)

\* No step lets an instruction slip past a held beat.
LEMMA WakeStep == IInv /\ NoBeatSleepsThrough /\ [Next]_vars => NoBeatSleepsThrough'
<1> SUFFICES ASSUME IInv, NoBeatSleepsThrough, [Next]_vars PROVE NoBeatSleepsThrough'
  OBVIOUS
<1> USE DeliveryAssumption DEF IInv, TypeOK, NoBeatSleepsThrough, WaitsFor, Undelivered, Asked,
                               SpokenFor, ZoneOf
<1>u. CASE UNCHANGED vars BY <1>u DEF vars
<1>e. ASSUME NEW m \in Machines, Ends(m), UNCHANGED <<rows, waking>> PROVE NoBeatSleepsThrough'
  BY <1>e DEF Ends, Cut
<1>a. ASSUME NEW i \in Instructions, NEW m \in Machines, NEW k \in AskedKinds, Ask(i, m, k)
      PROVE NoBeatSleepsThrough'
  <2>1. \A n \in Machines : i \notin zoneCommands[n]
    <3>1. agent[i] = NoMachine BY <1>a DEF Ask
    <3>2. \A n \in Machines : \A j \in zoneCommands[n] : agent[j] \in Zone
      BY DEF Bookkeeping
    <3>3. QED BY <3>1, <3>2
  <2>2. \A z \in Zone : WaitsFor(z)' = WaitsFor(z)
    <3> SUFFICES ASSUME NEW z \in Zone PROVE WaitsFor(z)' = WaitsFor(z)
      OBVIOUS
    <3>1. z \notin Direct /\ Via[z] \in Machines OBVIOUS
    <3>2. zoneCommands' = zoneCommands BY <1>a DEF Ask
    <3>3. \A j \in zoneCommands[Via[z]] : agent'[j] = agent[j]
      BY <1>a, <2>1, <3>1 DEF Ask
    <3>4. QED BY <3>1, <3>2, <3>3
  <2>3. \A d \in Direct : WaitsFor(d)' \subseteq WaitsFor(d) \union {i} BY <1>a DEF Ask
  <2>4. UNCHANGED <<loop, signal, missed>> /\ waking' = waking \union {i} BY <1>a DEF Ask
  <2>5. QED
    <3> HIDE DEF WaitsFor
    <3>1. QED BY <2>2, <2>3, <2>4
<1>b. ASSUME NEW i \in Instructions, Wake(i) PROVE NoBeatSleepsThrough'
  <2>1. \A m \in Machines : WaitsFor(m)' = WaitsFor(m) BY <1>b DEF Wake
  <2>2. /\ UNCHANGED <<loop, missed>> /\ waking' = waking \ {i}
        /\ \A m \in Machines : signal[m] => signal'[m]
    BY <1>b DEF Wake
  <2>3. \A d \in Direct : loop[d] = "held" /\ ~signal'[d] => i \notin WaitsFor(d)
    <3> SUFFICES ASSUME NEW d \in Direct, loop[d] = "held", i \in WaitsFor(d)
                 PROVE  signal'[d]
      BY <1>b DEF Wake
    <3>1. agent[i] = d \/ (agent[i] \in Zone /\ Via[agent[i]] = d) OBVIOUS
    <3>2. d \in Woken(i) BY <3>1 DEF Woken
    <3>3. Listening(d) BY DEF Listening
    <3>4. QED BY <1>b, <3>2, <3>3 DEF Wake
  <2>4. QED
    <3> HIDE DEF WaitsFor
    <3>1. QED BY <2>1, <2>2, <2>3
<1>1. ASSUME NEW m \in Machines, Beat(m) PROVE NoBeatSleepsThrough'
  <2>1. CASE Subscribe(m) BY <2>1 DEF Subscribe, CanAsk
  <2>2. CASE Check(m) BY <2>2 DEF Check, CanAsk
  <2>3. CASE Hold(m) BY <2>3 DEF Hold
  <2>4. CASE Woke(m) BY <2>4 DEF Woke, StopsListening
  <2>5. CASE BeatExpires(m) BY <2>5 DEF BeatExpires, StopsListening
  <2>6. QED BY <1>1, <2>1, <2>2, <2>3, <2>4, <2>5 DEF Beat
<1>2. ASSUME NEW m \in Machines, Poll(m) PROVE NoBeatSleepsThrough'
  <2>1. CASE PollServer(m) BY <2>1 DEF PollServer
  <2>2. CASE PollRelay(m) BY <2>2 DEF PollRelay
  <2>3. QED BY <1>2, <2>1, <2>2 DEF Poll
<1>3. ASSUME NEW m \in Machines, ReplyArrives(m) PROVE NoBeatSleepsThrough'
  <2>1. ASSUME NEW z \in Zone, loop'[z] \in {"checked", "held"}, ~signal'[z]
        PROVE  WaitsFor(z)' = {}
    <3>1. loop[z] \in {"checked", "held"} /\ ~signal[z] /\ WaitsFor(z) = {}
      BY <1>3, <2>1 DEF ReplyArrives
    <3>2. CASE Via[z] # m BY <1>3, <3>1, <3>2 DEF ReplyArrives
    <3>3. CASE Via[z] = m
      <4>1. {i \in reply[m] : agent[i] # m} = {}
        BY <1>3, <2>1, <3>1, <3>3 DEF ReplyArrives, Listening
      <4>2. zoneCommands' = zoneCommands /\ agent' = agent BY <1>3, <4>1 DEF ReplyArrives
      <4>3. QED BY <3>1, <4>2
    <3>4. QED BY <3>2, <3>3
  <2>2. ASSUME NEW d \in Direct, loop'[d] = "held", ~signal'[d]
        PROVE  WaitsFor(d)' \subseteq waking' \union missed'[d]
    BY <1>3, <2>2 DEF ReplyArrives
  <2>3. QED BY <2>1, <2>2
<1>4. ASSUME NEW m \in Machines, BootWithoutPoll(m) PROVE NoBeatSleepsThrough'
  BY <1>4 DEF BootWithoutPoll
<1>5. ASSUME NEW m \in Machines, Apply(m) PROVE NoBeatSleepsThrough'
  <2>1. CASE \E i \in Instructions : Carry(m, i) BY <2>1 DEF Carry
  <2>2. CASE Answer(m) BY <2>2 DEF Answer
  <2>3. CASE AnswerLost(m) BY <2>3 DEF AnswerLost
  <2>4. CASE BatchDone(m)
    <3>1. CASE Ends(m) BY <1>e, <2>4, <3>1 DEF BatchDone
    <3>2. CASE ~Ends(m) BY <2>4, <3>2 DEF BatchDone
    <3>3. QED BY <3>1, <3>2
  <2>5. QED BY <1>5, <2>1, <2>2, <2>3, <2>4 DEF Apply
<1>6. ASSUME NEW m \in Machines, Start(m) PROVE NoBeatSleepsThrough'
  BY <1>6 DEF Start
<1>7. ASSUME NEW m \in Machines, Fault(m) PROVE NoBeatSleepsThrough'
  <2>1. CASE BeatDropped(m) BY <2>1 DEF BeatDropped, StopsListening
  <2>2. CASE ReplyLost(m) BY <2>2 DEF ReplyLost
  <2>3. CASE Crash(m) BY <1>e, <2>3 DEF Crash
  <2>4. QED BY <1>7, <2>1, <2>2, <2>3 DEF Fault
<1>8. ASSUME NEW m \in Machines, Shell(m) PROVE NoBeatSleepsThrough'
  <2>1. CASE ShellResume(m) BY <2>1 DEF ShellResume
  <2>2. CASE ShellRestart(m) BY <1>e, <2>2 DEF ShellRestart
  <2>3. QED BY <1>8, <2>1, <2>2 DEF Shell
<1>9. QED
  BY <1>u, <1>a, <1>b, <1>1, <1>2, <1>3, <1>4, <1>5, <1>6, <1>7, <1>8
  DEF Next, Console, Turn

\* A relay's held beats never sleep through an instruction it holds, and the
\* server's only through one that arrived between its check and its listening.
THEOREM NoLostWakeup == Spec => []NoBeatSleepsThrough
<1>1. Init => NoBeatSleepsThrough BY DEF Init, NoBeatSleepsThrough
<1>2. QED BY <1>1, Always, WakeStep, PTL DEF Spec

-----------------------------------------------------------------------------
(* The promise made to the console: every step of a machine, a relay or the *)
(* server is one step of it, or none.                                       *)

\* The status of one instruction, case by case.
LEMMA StatusCases ==
    ASSUME NEW i \in Instructions, IInv
    PROVE  /\ agent[i] = NoMachine => status[i] = "none"
           /\ agent[i] # NoMachine /\ i \notin delivered => status[i] = "waiting"
           /\ i \in delivered /\ i \in answered => status[i] = "answered"
           /\ i \in delivered /\ i \notin answered /\ times[i] > 0 => status[i] = "carried"
           /\ i \in delivered /\ i \notin answered /\ times[i] = 0 /\ i \in lost
                => status[i] = "lost"
           /\ i \in delivered /\ i \notin answered /\ times[i] = 0 /\ i \notin lost
                => status[i] = "handed"
BY DEF status, IInv, Bookkeeping, Asked

\* The same after a step.
LEMMA StatusCasesNext ==
    ASSUME NEW i \in Instructions, IInv'
    PROVE  /\ agent'[i] = NoMachine => status'[i] = "none"
           /\ agent'[i] # NoMachine /\ i \notin delivered' => status'[i] = "waiting"
           /\ i \in delivered' /\ i \in answered' => status'[i] = "answered"
           /\ i \in delivered' /\ i \notin answered' /\ times'[i] > 0 => status'[i] = "carried"
           /\ i \in delivered' /\ i \notin answered' /\ times'[i] = 0 /\ i \in lost'
                => status'[i] = "lost"
           /\ i \in delivered' /\ i \notin answered' /\ times'[i] = 0 /\ i \notin lost'
                => status'[i] = "handed"
BY DEF status, IInv, Bookkeeping, Asked

\* Only what was carried out is answered.
LEMMA AnsweredCarried ==
    ASSUME IInv, NEW i \in answered PROVE i \in delivered /\ times[i] > 0
<1>1. i \in Instructions BY DEF IInv, TypeOK
<1>2. <<agent[i], i>> \in by BY <1>1 DEF IInv, AnsweredByItsMachine
<1>3. agent[i] \in Machines BY <1>2 DEF IInv, TypeOK
<1>4. QED BY <1>1, <1>2, <1>3 DEF IInv, Bookkeeping

\* A step that changes none of what a status is made of changes no status.
LEMMA Stutter == UNCHANGED <<rows, times, lost>> => status' = status
BY DEF status

\* A step that moves the instructions of S, and those only, is a move.
LEMMA Moved ==
    ASSUME NEW S \in SUBSET Instructions, NEW from, NEW to,
           \A i \in S : status[i] = from /\ status'[i] = to,
           \A i \in Instructions \ S : status'[i] = status[i]
    PROVE  (S = {} /\ status' = status) \/ Promise!Move(S, from, to)
<1>1. status' = [i \in Instructions |-> status'[i]] BY DEF status
<1>2. status = [i \in Instructions |-> status[i]] BY DEF status
<1>3. CASE S = {} BY <1>1, <1>2, <1>3
<1>4. CASE S # {} BY <1>1, <1>4 DEF Promise!Move
<1>5. QED BY <1>3, <1>4

\* A new row starts to wait.
LEMMA AskMoves ==
    ASSUME IInv, IInv', NEW i \in Instructions, NEW m \in Machines, NEW k \in AskedKinds,
           Ask(i, m, k)
    PROVE  Promise!Next
<1>1. status[i] = "none" BY StatusCases DEF Ask, Asked
<1>2. status'[i] = "waiting"
  BY StatusCasesNext, DeliveryAssumption DEF Ask, Asked, IInv, Bookkeeping, TypeOK
<1>3. \A j \in Instructions \ {i} : status'[j] = status[j] BY DEF status, Ask, IInv, TypeOK
<1>4. Promise!Move({i}, "none", "waiting") BY <1>1, <1>2, <1>3, Moved
<1>5. QED BY <1>4 DEF Promise!Next, Promise!Ask

\* What a poll marks was waiting, and is handed over.
LEMMA PollMoves ==
    ASSUME IInv, IInv', NEW m \in Machines, PollServer(m)
    PROVE  Promise!Next \/ status' = status
<1> DEFINE S == WaitsFor(m)
<1>1. S \in SUBSET Instructions /\ \A i \in S : agent[i] # NoMachine /\ i \notin delivered
  BY DEF WaitsFor, Undelivered, Asked, PollServer
<1>2. \A i \in S : status[i] = "waiting" BY <1>1, StatusCases
<1>3. \A i \in S : /\ i \in delivered' /\ i \notin answered'
                   /\ times'[i] = 0 /\ i \notin lost'
  BY <1>1, AnsweredCarried DEF PollServer, IInv, Bookkeeping
<1>4. \A i \in S : status'[i] = "handed" BY <1>1, <1>3, StatusCasesNext
<1>5. \A i \in Instructions \ S : status'[i] = status[i] BY DEF status, PollServer
<1>6. (S = {} /\ status' = status) \/ Promise!Move(S, "waiting", "handed")
  BY <1>1, <1>2, <1>4, <1>5, Moved
<1>7. QED BY <1>1, <1>6 DEF Promise!Next, Promise!HandOver

\* What is lost was handed over and not carried out.
LEMMA LoseMoves ==
    ASSUME IInv, IInv', UNCHANGED <<rows, times>>,
           NEW S \in SUBSET Instructions, lost' = lost \union S, \A i \in S : Placed(i)
    PROVE  Promise!Next \/ status' = status
<1>1. \A i \in S : i \in delivered /\ times[i] = 0 /\ i \notin lost
  BY DEF IInv, Fresh
<1>2. \A i \in S : i \notin answered
  BY <1>1, AnsweredCarried
<1>3. \A i \in S : status[i] = "handed" BY <1>1, <1>2, StatusCases
<1>4. \A i \in S : status'[i] = "lost" BY <1>1, <1>2, StatusCasesNext
<1>5. \A i \in Instructions \ S : status'[i] = status[i] BY DEF status
<1>6. (S = {} /\ status' = status) \/ Promise!Move(S, "handed", "lost")
  BY <1>3, <1>4, <1>5, Moved
<1>7. QED BY <1>6 DEF Promise!Next, Promise!Lose

\* A process that ends loses only what had not been carried out.
LEMMA EndsMoves ==
    ASSUME IInv, IInv', UNCHANGED <<rows, times>>, NEW m \in Machines, Ends(m)
    PROVE  Promise!Next \/ status' = status
<1> DEFINE S == todo[m] \union reply[m] \union zoneCommands[m]
<1>1. S \in SUBSET Instructions BY DEF IInv, TypeOK
<1>2. lost' = lost \union S BY DEF Ends
<1>3. \A i \in S : Placed(i) BY DEF Placed
<1>4. QED BY <1>1, <1>2, <1>3, LoseMoves

\* What is carried out was handed over.
LEMMA CarryMoves ==
    ASSUME IInv, IInv', NEW m \in Machines, NEW i \in Instructions, Carry(m, i)
    PROVE  Promise!Next
<1>1. i \in delivered /\ times[i] = 0 /\ i \notin lost BY DEF Carry, IInv, Fresh, Placed
<1>2. i \notin answered
  BY <1>1, AnsweredCarried
<1>3. status[i] = "handed" BY <1>1, <1>2, StatusCases
<1>4. times'[i] = 1 /\ i \in delivered' /\ i \notin answered'
  BY <1>1, <1>2 DEF Carry, IInv, TypeOK
<1>5. status'[i] = "carried" BY <1>4, StatusCasesNext
<1>6. \A j \in Instructions \ {i} : status'[j] = status[j] BY DEF status, Carry, IInv, TypeOK
<1>7. Promise!Move({i}, "handed", "carried") BY <1>3, <1>5, <1>6, Moved
<1>8. QED BY <1>7 DEF Promise!Next, Promise!CarryOut

\* What is answered was carried out.
LEMMA AnswerMoves ==
    ASSUME IInv, IInv', NEW m \in Machines, Answer(m)
    PROVE  Promise!Next \/ status' = status
<1> DEFINE i == answering[m]
<1>1. i \in Instructions /\ <<m, i>> \in by /\ i \in delivered
  BY DEF Answer, IInv, TypeOK, Bookkeeping
<1>t. times[i] > 0 BY <1>1 DEF IInv, Bookkeeping
<1>2. CASE i \in answered
  <2>1. answered' = answered BY <1>2 DEF Answer
  <2>2. QED BY <2>1, Stutter DEF Answer
<1>3. CASE i \notin answered
  <2>1. status'[i] = "answered" BY <1>1, StatusCasesNext DEF Answer
  <2>3. status[i] = "carried" BY <1>1, <1>3, <1>t, StatusCases
  <2>4. \A j \in Instructions \ {i} : status'[j] = status[j] BY DEF status, Answer
  <2>5. Promise!Move({i}, "carried", "answered") BY <1>1, <2>1, <2>3, <2>4, Moved
  <2>6. QED BY <1>1, <2>5 DEF Promise!Next, Promise!Answer
<1>4. QED BY <1>2, <1>3

-----------------------------------------------------------------------------
\* Every step of the detailed specification is a step or a stutter of the promise.
LEMMA StepKeepsPromise ==
    IInv /\ IInv' /\ [Next]_vars => Promise!Next \/ status' = status
<1> SUFFICES ASSUME IInv, IInv', [Next]_vars PROVE Promise!Next \/ status' = status
  OBVIOUS
<1>u. CASE UNCHANGED vars BY <1>u, Stutter DEF vars
<1>a. ASSUME NEW i \in Instructions, NEW m \in Machines, NEW k \in AskedKinds, Ask(i, m, k)
      PROVE Promise!Next
  BY <1>a, AskMoves
<1>b. ASSUME NEW i \in Instructions, Wake(i) PROVE status' = status
  BY <1>b, Stutter DEF Wake
<1>1. ASSUME NEW m \in Machines, Beat(m) PROVE status' = status
  BY <1>1, Stutter DEF Beat, Subscribe, Check, Hold, Woke, BeatExpires
<1>2. ASSUME NEW m \in Machines, Poll(m) PROVE Promise!Next \/ status' = status
  BY <1>2, PollMoves, Stutter DEF Poll, PollRelay
<1>3. ASSUME NEW m \in Machines, ReplyArrives(m) PROVE status' = status
  BY <1>3, Stutter DEF ReplyArrives
<1>4. ASSUME NEW m \in Machines, BootWithoutPoll(m) PROVE status' = status
  BY <1>4, Stutter DEF BootWithoutPoll
<1>5. ASSUME NEW m \in Machines, Apply(m) PROVE Promise!Next \/ status' = status
  <2>1. CASE \E i \in Instructions : Carry(m, i) BY <2>1, CarryMoves
  <2>2. CASE Answer(m) BY <2>2, AnswerMoves
  <2>3. CASE AnswerLost(m) BY <2>3, Stutter DEF AnswerLost
  <2>4. CASE BatchDone(m)
    <3>1. CASE Ends(m) BY <2>4, <3>1, EndsMoves DEF BatchDone
    <3>2. CASE ~Ends(m) BY <2>4, <3>2, Stutter DEF BatchDone
    <3>3. QED BY <3>1, <3>2
  <2>5. QED BY <1>5, <2>1, <2>2, <2>3, <2>4 DEF Apply
<1>6. ASSUME NEW m \in Machines, Start(m) PROVE status' = status
  BY <1>6, Stutter DEF Start
<1>7. ASSUME NEW m \in Machines, Fault(m) PROVE Promise!Next \/ status' = status
  <2>1. CASE BeatDropped(m) BY <2>1, Stutter DEF BeatDropped
  <2>2. CASE ReplyLost(m)
    <3>1. reply[m] \in SUBSET Instructions BY DEF IInv, TypeOK
    <3>2. \A i \in reply[m] : Placed(i) BY DEF Placed
    <3>3. QED BY <2>2, <3>1, <3>2, LoseMoves DEF ReplyLost
  <2>3. CASE Crash(m) BY <2>3, EndsMoves DEF Crash
  <2>4. QED BY <1>7, <2>1, <2>2, <2>3 DEF Fault
<1>8. ASSUME NEW m \in Machines, Shell(m) PROVE Promise!Next \/ status' = status
  <2>1. CASE ShellResume(m) BY <2>1, Stutter DEF ShellResume
  <2>2. CASE ShellRestart(m) BY <2>2, EndsMoves DEF ShellRestart
  <2>3. QED BY <1>8, <2>1, <2>2 DEF Shell
<1>9. QED
  BY <1>u, <1>a, <1>b, <1>1, <1>2, <1>3, <1>4, <1>5, <1>6, <1>7, <1>8
  DEF Next, Console, Turn

\* The whole delivery, with its relays, crashes and lost replies, implements the
\* promise: an instruction is handed over once, then carried out once or lost,
\* and only answered once carried out.
THEOREM Implements == Spec => PromiseKept
<1>1. Init => Promise!Init BY DEF Init, Promise!Init, status
<1>2. IInv /\ IInv' /\ [Next]_vars => [Promise!Next]_status BY StepKeepsPromise
<1>3. QED BY <1>1, <1>2, Always, PTL DEF Spec, PromiseKept, Promise!Spec

=============================================================================
