----------------------------- MODULE JobMirrorProofs -----------------------------
(***************************************************************************)
(* Proofs about JobMirror, for any numbers of variables, instructions,     *)
(* reports and threads.                                                    *)
(***************************************************************************)
EXTENDS JobMirror, ValueNamesProofs, FiniteSetTheorems, TLAPS

-----------------------------------------------------------------------------
(* Objects, their names, and the sets these are in.                        *)

\* The objects, one by one.
LEMMA ObjectCases ==
    ASSUME NEW object
    PROVE  object \in Objects <=>
              \/ object = <<"JobStateUpdated", 0>>
              \/ object = <<"BreakpointInstructionUpdated", 0>>
              \/ object = <<"Log", 0>>
              \/ object = <<"Message", 0>>
              \/ object = <<"PutValue", 0>>
              \/ \E i \in 0..(NVars - 1) : object = <<"VariableUpdated", i>>
              \/ \E i \in 0..(NInstr - 1) : object = <<"InstructionStateUpdated", i>>
  BY DEF Objects, Entries

\* What ParseValueName finds in the name of an object.
InfoFor(object) ==
    ValueNameInfo(
        CASE object[1] = "JobStateUpdated" -> "kJobStatus"
          [] object[1] = "BreakpointInstructionUpdated" -> "kBreakpointInstruction"
          [] object[1] = "Log" -> "kLogEntry"
          [] object[1] = "Message" -> "kMessageEntry"
          [] object[1] = "PutValue" -> "kOutputValueEntry"
          [] object[1] = "VariableUpdated" -> "kVariable"
          [] OTHER -> "kInstruction",
        object[2])

\* It identifies the object.
LEMMA InfosIdentify ==
    /\ \A object \in Objects : InfoFor(object) \in Infos
    /\ \A p, q \in Objects : InfoFor(p) = InfoFor(q) => p = q
    /\ \A object \in Objects : InfoFor(object) \in [val_type : ValueNameTypes, idx : Nat]
  <1>1. (0..(NVars - 1)) \cup (0..(NInstr - 1)) \subseteq Indices
    BY IndicesAssumption DEF Indices
  <1>2. \A i, j : /\ InfoFor(<<"VariableUpdated", i>>) = ValueNameInfo("kVariable", i)
                  /\ InfoFor(<<"InstructionStateUpdated", i>>)
                        = ValueNameInfo("kInstruction", i)
    BY DEF InfoFor
  <1>3. /\ InfoFor(<<"JobStateUpdated", 0>>) = ValueNameInfo("kJobStatus", 0)
        /\ InfoFor(<<"BreakpointInstructionUpdated", 0>>)
              = ValueNameInfo("kBreakpointInstruction", 0)
        /\ InfoFor(<<"Log", 0>>) = ValueNameInfo("kLogEntry", 0)
        /\ InfoFor(<<"Message", 0>>) = ValueNameInfo("kMessageEntry", 0)
        /\ InfoFor(<<"PutValue", 0>>) = ValueNameInfo("kOutputValueEntry", 0)
    BY DEF InfoFor
  <1>4. \A t, u \in ValueNameTypes : \A i, j :
           ValueNameInfo(t, i) = ValueNameInfo(u, j) => t = u /\ i = j
    BY DEF ValueNameInfo
  <1>5. {"kJobStatus", "kBreakpointInstruction", "kLogEntry", "kMessageEntry",
         "kOutputValueEntry", "kVariable", "kInstruction"} \subseteq ValueNameTypes
    BY DEF ValueNameTypes
  <1>6. /\ \A i \in Indices : ValueNameInfo("kVariable", i) \in Infos
        /\ \A i \in Indices : ValueNameInfo("kInstruction", i) \in Infos
        /\ \A t \in {"kJobStatus", "kBreakpointInstruction", "kLogEntry",
                     "kMessageEntry", "kOutputValueEntry"} :
              ValueNameInfo(t, 0) \in Infos
    BY DEF Infos, ValueNameTypes
  <1>7. \A t \in ValueNameTypes, i \in Nat :
           ValueNameInfo(t, i) \in [val_type : ValueNameTypes, idx : Nat]
    BY DEF ValueNameInfo
  <1>8. ASSUME NEW object \in Objects
        PROVE  /\ InfoFor(object) \in Infos
               /\ InfoFor(object) \in [val_type : ValueNameTypes, idx : Nat]
    <2>1. CASE \E i \in 0..(NVars - 1) : object = <<"VariableUpdated", i>>
      <3>1. PICK i \in 0..(NVars - 1) : object = <<"VariableUpdated", i>>
        BY <2>1
      <3>2. i \in Indices /\ i \in Nat
        BY <1>1, NumbersAssumption
      <3> QED BY <1>2, <1>5, <1>6, <1>7, <3>1, <3>2
    <2>2. CASE \E i \in 0..(NInstr - 1) : object = <<"InstructionStateUpdated", i>>
      <3>1. PICK i \in 0..(NInstr - 1) : object = <<"InstructionStateUpdated", i>>
        BY <2>2
      <3>2. i \in Indices /\ i \in Nat
        BY <1>1, NumbersAssumption
      <3> QED BY <1>2, <1>5, <1>6, <1>7, <3>1, <3>2
    <2>3. CASE object \in {<<"JobStateUpdated", 0>>,
                           <<"BreakpointInstructionUpdated", 0>>, <<"Log", 0>>,
                           <<"Message", 0>>, <<"PutValue", 0>>}
      <3>1. 0 \in Nat
        OBVIOUS
      <3>2. PICK t \in {"kJobStatus", "kBreakpointInstruction", "kLogEntry",
                        "kMessageEntry", "kOutputValueEntry"} :
               InfoFor(object) = ValueNameInfo(t, 0)
        BY <1>3, <2>3
      <3>3. InfoFor(object) \in Infos
        BY <1>6, <3>2
      <3>4. t \in ValueNameTypes
        BY <1>5
      <3> QED BY <1>7, <3>1, <3>2, <3>3, <3>4
    <2> QED BY <2>1, <2>2, <2>3, ObjectCases
  <1>9. ASSUME NEW p \in Objects, NEW q \in Objects, InfoFor(p) = InfoFor(q)
        PROVE  p = q
    BY <1>2, <1>3, <1>4, <1>5, <1>9, ObjectCases
  <1> QED BY <1>8, <1>9

\* The prefix of the names is not empty.
LEMMA JobPrefix == \E S : m_job_prefix \in Seq(S) /\ m_job_prefix /= <<>>
  <1> DEFINE t == <<":PROC", "-", Text[JobIdx], ":">>
             T == {":PROC", "-", Text[JobIdx], ":"}
  <1>1. t \in Seq(T) /\ Len(t) = 4
    OBVIOUS
  <1>2. m_job_prefix = ServerPrefix \o t
    BY DEF m_job_prefix, CreateJobPrefix
  <1> HIDE DEF t, T
  <1> DEFINE V == STRING \cup T
  <1>3. ServerPrefix \in Seq(V) /\ t \in Seq(V)
    BY <1>1, ServerPrefixAssumption, SeqMonotonic
  <1> HIDE DEF V
  <1>4. /\ ServerPrefix \o t \in Seq(V)
        /\ Len(ServerPrefix \o t) = Len(ServerPrefix) + Len(t)
    BY <1>3, ConcatProperties
  <1>5. Len(ServerPrefix) \in Nat
    BY <1>3
  <1>6. Len(m_job_prefix) /= 0 /\ m_job_prefix \in Seq(V)
    BY <1>1, <1>2, <1>4, <1>5
  <1> QED BY <1>6

\* The name of an object leads back to it.
LEMMA NamesIdentify ==
    /\ \A object \in Objects : ParseValueName(NameOf[object]) = InfoFor(object)
    /\ \A p, q \in Objects : NameOf[p] = NameOf[q] => p = q
  <1>1. ASSUME NEW object \in Objects
        PROVE  NameOf[object] = NameFor(m_job_prefix, InfoFor(object))
    <2>1. NameOf[object] =
            CASE object[1] = "JobStateUpdated" -> GetJobStatePVName(m_job_prefix)
              [] object[1] = "BreakpointInstructionUpdated" ->
                    GetBreakpointInstructionPVName(m_job_prefix)
              [] object[1] = "Log" -> GetLogEntryName(m_job_prefix)
              [] object[1] = "Message" -> GetMessageEntryName(m_job_prefix)
              [] object[1] = "PutValue" -> GetOutputValueEntryName(m_job_prefix)
              [] object[1] = "VariableUpdated" ->
                    GetVariablePVName(m_job_prefix, object[2])
              [] OTHER -> GetInstructionPVName(m_job_prefix, object[2])
      BY DEF NameOf
    <2> QED BY <2>1, ObjectCases DEF NameFor, InfoFor, ValueNameInfo
  <1>2. ASSUME NEW object \in Objects
        PROVE  ParseValueName(NameOf[object]) = InfoFor(object)
    <2>1. PICK S : m_job_prefix \in Seq(S) /\ m_job_prefix /= <<>>
      BY JobPrefix
    <2>2. InfoFor(object) \in Infos
      BY InfosIdentify
    <2>3. ParseValueName(NameFor(m_job_prefix, InfoFor(object))) = InfoFor(object)
      BY <2>1, <2>2, NameIsParsed
    <2> QED BY <1>1, <2>3
  <1>3. ASSUME NEW p \in Objects, NEW q \in Objects, NameOf[p] = NameOf[q]
        PROVE  p = q
    BY <1>2, <1>3, InfosIdentify
  <1> QED BY <1>2, <1>3

\* The set an object's name is in, and the value it has there.
SetOf(object) ==
    IF object[1] = "InstructionStateUpdated" THEN "instructions" ELSE "job"

InitialValue(object) ==
    CASE object[1] = "JobStateUpdated" -> GetJobStateValue(kInitial)
      [] object[1] = "BreakpointInstructionUpdated" ->
            GetBreakpointInstructionValue(kInvalidInstructionIndex)
      [] object[1] = "Log" -> kLogEntryAnyValue
      [] object[1] = "Message" -> kMessageEntryAnyValue
      [] object[1] = "PutValue" -> kOutputValueEntryAnyValue
      [] object[1] = "VariableUpdated" -> kVariableAnyValue
      [] OTHER -> kInstructionStateAnyValue

PairOf(object) == NameAnyValuePair(NameOf[object], InitialValue(object))

\* The pairs of the objects that every job has.
LEMMA PairsOfTheJob ==
    GetInitialValueSet(m_job_prefix, NVars) =
        << PairOf(<<"JobStateUpdated", 0>>),
           PairOf(<<"BreakpointInstructionUpdated", 0>>),
           PairOf(<<"Log", 0>>),
           PairOf(<<"Message", 0>>),
           PairOf(<<"PutValue", 0>>) >>
        \o [i \in 1..NVars |-> PairOf(<<"VariableUpdated", i - 1>>)]
  <1> DEFINE P(object) == PairOf(object)
  <1>1. /\ P(<<"JobStateUpdated", 0>>) =
              NameAnyValuePair(GetJobStatePVName(m_job_prefix),
                               GetJobStateValue(kInitial))
        /\ P(<<"BreakpointInstructionUpdated", 0>>) =
              NameAnyValuePair(GetBreakpointInstructionPVName(m_job_prefix),
                  GetBreakpointInstructionValue(kInvalidInstructionIndex))
        /\ P(<<"Log", 0>>) =
              NameAnyValuePair(GetLogEntryName(m_job_prefix), kLogEntryAnyValue)
        /\ P(<<"Message", 0>>) =
              NameAnyValuePair(GetMessageEntryName(m_job_prefix),
                               kMessageEntryAnyValue)
        /\ P(<<"PutValue", 0>>) =
              NameAnyValuePair(GetOutputValueEntryName(m_job_prefix),
                               kOutputValueEntryAnyValue)
    BY ObjectCases DEF PairOf, InitialValue, NameOf
  <1>2. ASSUME NEW i \in 1..NVars
        PROVE  P(<<"VariableUpdated", i - 1>>) =
                  NameAnyValuePair(GetVariablePVName(m_job_prefix, i - 1),
                                   kVariableAnyValue)
    <2>1. i - 1 \in 0..(NVars - 1)
      BY NumbersAssumption
    <2>2. <<"VariableUpdated", i - 1>> \in Objects
      BY <2>1, ObjectCases
    <2> QED BY <2>2 DEF PairOf, InitialValue, NameOf
  <1>3. [i \in 1..NVars |-> P(<<"VariableUpdated", i - 1>>)] =
           [i \in 1..NVars |->
               NameAnyValuePair(GetVariablePVName(m_job_prefix, i - 1),
                                kVariableAnyValue)]
    BY <1>2
  <1> HIDE DEF P
  <1> QED BY <1>1, <1>3 DEF GetInitialValueSet, P

\* The pairs of the instructions.
LEMMA PairsOfTheInstructions ==
    GetInstructionValueSet(m_job_prefix, NInstr) =
        [i \in 1..NInstr |-> PairOf(<<"InstructionStateUpdated", i - 1>>)]
  <1>1. ASSUME NEW i \in 1..NInstr
        PROVE  PairOf(<<"InstructionStateUpdated", i - 1>>) =
                  NameAnyValuePair(GetInstructionPVName(m_job_prefix, i - 1),
                                   kInstructionStateAnyValue)
    <2>1. i - 1 \in 0..(NInstr - 1)
      BY NumbersAssumption
    <2>2. <<"InstructionStateUpdated", i - 1>> \in Objects
      BY <2>1, ObjectCases
    <2> QED BY <2>2 DEF PairOf, InitialValue, NameOf
  <1> QED BY <1>1 DEF GetInstructionValueSet

\* The sets list the names of the objects with their initial values.
LEMMA SetsListObjects ==
    /\ \A s \in Sets :
          /\ Len(ValueSet[s]) \in Nat
          /\ DOMAIN ValueSet[s] = 1..Len(ValueSet[s])
          /\ \A i \in 1..Len(ValueSet[s]) : \E object \in Objects :
                SetOf(object) = s /\ ValueSet[s][i] = PairOf(object)
    /\ \A object \in Objects :
          /\ SetOf(object) \in Sets
          /\ \E i \in 1..Len(ValueSet[SetOf(object)]) :
                ValueSet[SetOf(object)][i] = PairOf(object)
  <1> DEFINE first == << PairOf(<<"JobStateUpdated", 0>>),
                         PairOf(<<"BreakpointInstructionUpdated", 0>>),
                         PairOf(<<"Log", 0>>),
                         PairOf(<<"Message", 0>>),
                         PairOf(<<"PutValue", 0>>) >>
             rest == [i \in 1..NVars |-> PairOf(<<"VariableUpdated", i - 1>>)]
             instrs == [i \in 1..NInstr |-> PairOf(<<"InstructionStateUpdated", i - 1>>)]
             T == {PairOf(object) : object \in Objects}
  <1>1. ValueSet["job"] = first \o rest /\ ValueSet["instructions"] = instrs
    BY PairsOfTheJob, PairsOfTheInstructions DEF ValueSet, Sets
  <1>2. NVars \in Nat /\ NInstr \in Nat
    BY NumbersAssumption
  <1>3. /\ \A i \in 1..NVars : <<"VariableUpdated", i - 1>> \in Objects
        /\ \A i \in 1..NInstr : <<"InstructionStateUpdated", i - 1>> \in Objects
    <2>1. \A i \in 1..NVars : i - 1 \in 0..(NVars - 1)
      BY <1>2
    <2>2. \A i \in 1..NInstr : i - 1 \in 0..(NInstr - 1)
      BY <1>2
    <2> QED BY <2>1, <2>2, ObjectCases
  <1>4. first \in Seq(T) /\ Len(first) = 5
    BY ObjectCases
  <1>5. rest \in Seq(T) /\ Len(rest) = NVars
    BY <1>2, <1>3
  <1>6. instrs \in Seq(T) /\ Len(instrs) = NInstr
    BY <1>2, <1>3
  <1>7. /\ first[1] = PairOf(<<"JobStateUpdated", 0>>)
        /\ first[2] = PairOf(<<"BreakpointInstructionUpdated", 0>>)
        /\ first[3] = PairOf(<<"Log", 0>>)
        /\ first[4] = PairOf(<<"Message", 0>>)
        /\ first[5] = PairOf(<<"PutValue", 0>>)
        /\ \A i \in 1..NVars : rest[i] = PairOf(<<"VariableUpdated", i - 1>>)
        /\ \A i \in 1..NInstr : instrs[i] = PairOf(<<"InstructionStateUpdated", i - 1>>)
    OBVIOUS
  <1> HIDE DEF first, rest, instrs, T
  <1>8. /\ first \o rest \in Seq(T) /\ Len(first \o rest) = 5 + NVars
        /\ \A i \in 1..(5 + NVars) :
              (first \o rest)[i] = IF i <= 5 THEN first[i] ELSE rest[i - 5]
    <2>1. /\ first \o rest \in Seq(T)
          /\ Len(first \o rest) = Len(first) + Len(rest)
          /\ \A i \in 1..(Len(first) + Len(rest)) :
                (first \o rest)[i] =
                   IF i <= Len(first) THEN first[i] ELSE rest[i - Len(first)]
      BY <1>4, <1>5, ConcatProperties
    <2> QED BY <1>4, <1>5, <2>1
  <1>9. \A s \in Sets : Len(ValueSet[s]) \in Nat /\ DOMAIN ValueSet[s] = 1..Len(ValueSet[s])
    BY <1>1, <1>6, <1>8 DEF Sets
  <1>10. ASSUME NEW i \in 1..Len(ValueSet["job"])
         PROVE  \E object \in Objects :
                   SetOf(object) = "job" /\ ValueSet["job"][i] = PairOf(object)
    <2>1. i \in 1..(5 + NVars)
      BY <1>1, <1>8
    <2>2. CASE i <= 5
      <3>1. i = 1 \/ i = 2 \/ i = 3 \/ i = 4 \/ i = 5
        BY <1>2, <2>1, <2>2
      <3>2. ValueSet["job"][i] = first[i]
        BY <1>1, <1>8, <2>1, <2>2
      <3> QED BY <1>7, <3>1, <3>2, ObjectCases DEF SetOf
    <2>3. CASE ~ (i <= 5)
      <3>1. i - 5 \in 1..NVars
        BY <1>2, <2>1, <2>3
      <3>2. ValueSet["job"][i] = rest[i - 5]
        BY <1>1, <1>8, <2>1, <2>3
      <3>3. SetOf(<<"VariableUpdated", i - 5 - 1>>) = "job"
        BY DEF SetOf
      <3> QED BY <1>3, <1>7, <3>1, <3>2, <3>3
    <2> QED BY <2>2, <2>3
  <1>11. ASSUME NEW i \in 1..Len(ValueSet["instructions"])
         PROVE  \E object \in Objects :
                   /\ SetOf(object) = "instructions"
                   /\ ValueSet["instructions"][i] = PairOf(object)
    <2>1. i \in 1..NInstr
      BY <1>1, <1>6
    <2>2. SetOf(<<"InstructionStateUpdated", i - 1>>) = "instructions"
      BY DEF SetOf
    <2> QED BY <1>1, <1>3, <1>7, <2>1, <2>2
  <1>12. ASSUME NEW object \in Objects
         PROVE  /\ SetOf(object) \in Sets
                /\ \E i \in 1..Len(ValueSet[SetOf(object)]) :
                      ValueSet[SetOf(object)][i] = PairOf(object)
    <2>1. SetOf(object) \in Sets
      BY DEF SetOf, Sets
    <2>2. CASE \E i \in 0..(NVars - 1) : object = <<"VariableUpdated", i>>
      <3>1. PICK i \in 0..(NVars - 1) : object = <<"VariableUpdated", i>>
        BY <2>2
      <3>2. /\ i + 1 \in 1..NVars /\ i + 6 \in 1..(5 + NVars)
            /\ ~ (i + 6 <= 5) /\ i + 6 - 5 = i + 1 /\ i + 1 - 1 = i
        BY <1>2
      <3>3. ValueSet["job"][i + 6] = PairOf(object)
        BY <1>1, <1>7, <1>8, <3>1, <3>2
      <3>4. SetOf(object) = "job"
        BY <3>1 DEF SetOf
      <3> QED BY <1>1, <1>8, <2>1, <3>2, <3>3, <3>4
    <2>3. CASE \E i \in 0..(NInstr - 1) : object = <<"InstructionStateUpdated", i>>
      <3>1. PICK i \in 0..(NInstr - 1) : object = <<"InstructionStateUpdated", i>>
        BY <2>3
      <3>2. i + 1 \in 1..NInstr /\ i + 1 - 1 = i
        BY <1>2
      <3>3. ValueSet["instructions"][i + 1] = PairOf(object)
        BY <1>1, <1>7, <3>1, <3>2
      <3>4. SetOf(object) = "instructions"
        BY <3>1 DEF SetOf
      <3> QED BY <1>1, <1>6, <2>1, <3>2, <3>3, <3>4
    <2>4. ASSUME NEW k \in 1..5, object[1] /= "InstructionStateUpdated",
                 first[k] = PairOf(object)
          PROVE  \E i \in 1..Len(ValueSet[SetOf(object)]) :
                    ValueSet[SetOf(object)][i] = PairOf(object)
      <3>1. k \in 1..(5 + NVars) /\ k <= 5
        BY <1>2
      <3>2. SetOf(object) = "job"
        BY <2>4 DEF SetOf
      <3> QED BY <1>1, <1>8, <2>4, <3>1, <3>2
    <2>5. CASE object \in {<<"JobStateUpdated", 0>>,
                           <<"BreakpointInstructionUpdated", 0>>, <<"Log", 0>>,
                           <<"Message", 0>>, <<"PutValue", 0>>}
      <3>1. \E k \in 1..5 : first[k] = PairOf(object)
        BY <1>7, <2>5
      <3>2. object[1] /= "InstructionStateUpdated"
        BY <2>5
      <3> QED BY <2>1, <2>4, <3>1, <3>2
    <2> QED BY <2>2, <2>3, <2>5, ObjectCases
  <1> QED BY <1>9, <1>10, <1>11, <1>12 DEF Sets

\* The names of the values and the objects they are about.
LEMMA NamesAreOfObjects ==
    /\ \A object \in Objects, s \in Sets : NameOf[object] \in NamesOf[s] <=> s = SetOf(object)
    /\ \A s \in Sets : \A name \in NamesOf[s] :
          \E object \in Objects : SetOf(object) = s /\ name = NameOf[object]
    /\ \A object \in Objects :
          /\ NameOf[object] \in Names
          /\ NameOf[object] \in NamesOf[SetOf(object)]
          /\ InfoOf[NameOf[object]] = InfoFor(object)
    /\ \A name \in Names : \E object \in Objects : name = NameOf[object]
    /\ \A s \in Sets : NamesOf[s] \subseteq Names
  <1>1. \A s \in Sets : NamesOf[s] = {ValueSet[s][i].name : i \in 1..Len(ValueSet[s])}
    BY SetsListObjects DEF NamesOf, GetNames
  <1>2. \A object : PairOf(object).name = NameOf[object]
    BY DEF PairOf, NameAnyValuePair
  <1>3. ASSUME NEW s \in Sets, NEW name \in NamesOf[s]
        PROVE  \E object \in Objects : SetOf(object) = s /\ name = NameOf[object]
    <2>1. PICK i \in 1..Len(ValueSet[s]) : name = ValueSet[s][i].name
      BY <1>1
    <2> QED BY <1>2, <2>1, SetsListObjects
  <1>4. ASSUME NEW object \in Objects
        PROVE  NameOf[object] \in NamesOf[SetOf(object)] /\ SetOf(object) \in Sets
    <2>1. PICK i \in 1..Len(ValueSet[SetOf(object)]) :
             ValueSet[SetOf(object)][i] = PairOf(object)
      BY SetsListObjects, Zenon
    <2>2. SetOf(object) \in Sets
      BY SetsListObjects, Zenon
    <2>3. ValueSet[SetOf(object)][i].name = NameOf[object]
      BY <1>2, <2>1, Zenon
    <2> QED BY <1>1, <2>2, <2>3
  <1>5. ASSUME NEW object \in Objects, NEW s \in Sets, NameOf[object] \in NamesOf[s]
        PROVE  s = SetOf(object)
    BY <1>3, <1>5, NamesIdentify
  <1>6. \A s \in Sets : NamesOf[s] \subseteq Names
    BY DEF Names
  <1>7. \A name \in Names : \E s \in Sets : name \in NamesOf[s]
    BY DEF Names
  <1>8. \A object \in Objects :
           NameOf[object] \in Names /\ InfoOf[NameOf[object]] = InfoFor(object)
    BY <1>4, <1>6, NamesIdentify DEF InfoOf
  <1> QED BY <1>3, <1>4, <1>5, <1>6, <1>7, <1>8

-----------------------------------------------------------------------------
(* What the listener is told of a value.                                   *)

\* The value leads to a call with the arguments, or to none.
Encodes(object, args, value) ==
    \A call \in CreateCallback(InfoFor(object), value) :
        call = [object |-> object, args |-> args]

\* The callbacks of the kinds of values, for any value.
LEMMA CallbacksByInfo ==
    ASSUME NEW av
    PROVE  /\ CreateCallback(InfoFor(<<"JobStateUpdated", 0>>), av) = UpdateJobState(av)
           /\ CreateCallback(InfoFor(<<"BreakpointInstructionUpdated", 0>>), av)
                 = UpdateBreakpointInstruction(av)
           /\ CreateCallback(InfoFor(<<"Log", 0>>), av) = UpdateLogEntry(av)
           /\ CreateCallback(InfoFor(<<"Message", 0>>), av) = UpdateMessageEntry(av)
           /\ CreateCallback(InfoFor(<<"PutValue", 0>>), av)
                 = UpdateOutputValueEntry(av)
           /\ \A i : CreateCallback(InfoFor(<<"VariableUpdated", i>>), av)
                        = UpdateVariableState(i, av)
           /\ \A i : CreateCallback(InfoFor(<<"InstructionStateUpdated", i>>), av)
                        = UpdateInstructionState(i, av)
  BY DEF InfoFor, ValueNameInfo, CreateCallback

\* Each of them calls with the fields of the value.
LEMMA CallbacksByFields ==
    ASSUME NEW av
    PROVE  /\ Encodes(<<"JobStateUpdated", 0>>, <<av.state.value>>, av)
           /\ Encodes(<<"BreakpointInstructionUpdated", 0>>, <<av.index.value>>, av)
           /\ Encodes(<<"Log", 0>>, <<av.severity.value, av.message.value>>, av)
           /\ Encodes(<<"Message", 0>>, <<av.message.value>>, av)
           /\ Encodes(<<"PutValue", 0>>, <<av.value, av.description.value>>, av)
           /\ \A i : Encodes(<<"InstructionStateUpdated", i>>,
                             <<av.exec_state.value>>, av)
  <1>1. Encodes(<<"JobStateUpdated", 0>>, <<av.state.value>>, av)
    BY CallbacksByInfo DEF Encodes, UpdateJobState, ListenerCall
  <1>2. Encodes(<<"BreakpointInstructionUpdated", 0>>, <<av.index.value>>, av)
    <2>1. \A i \in DecodeBreakpointInstructionIndex(av) : i = av.index.value
      BY DEF DecodeBreakpointInstructionIndex
    <2> QED
      BY <2>1, CallbacksByInfo DEF Encodes, UpdateBreakpointInstruction, ListenerCall
  <1>3. Encodes(<<"Log", 0>>, <<av.severity.value, av.message.value>>, av)
    <2>1. \A e \in DecodeLogEntry(av) :
             e.m_severity = av.severity.value /\ e.m_message = av.message.value
      BY DEF DecodeLogEntry, LogEntry
    <2> QED BY <2>1, CallbacksByInfo DEF Encodes, UpdateLogEntry, ListenerCall
  <1>4. Encodes(<<"Message", 0>>, <<av.message.value>>, av)
    <2>1. \A e \in DecodeMessageEntry(av) : e.m_message = av.message.value
      BY DEF DecodeMessageEntry, MessageEntry
    <2> QED BY <2>1, CallbacksByInfo DEF Encodes, UpdateMessageEntry, ListenerCall
  <1>5. Encodes(<<"PutValue", 0>>, <<av.value, av.description.value>>, av)
    <2>1. \A e \in DecodeOutputValueEntry(av) :
             e.m_value = av.value /\ e.m_description = av.description.value
      BY DEF DecodeOutputValueEntry, OutputValueEntry
    <2> QED BY <2>1, CallbacksByInfo DEF Encodes, UpdateOutputValueEntry, ListenerCall
  <1>6. ASSUME NEW i
        PROVE  Encodes(<<"InstructionStateUpdated", i>>, <<av.exec_state.value>>, av)
    <2>1. \A state \in ToInstructionState(av) : state = av.exec_state.value
      BY DEF ToInstructionState
    <2> QED BY <2>1, CallbacksByInfo DEF Encodes, UpdateInstructionState, ListenerCall
  <1> QED BY <1>1, <1>2, <1>3, <1>4, <1>5, <1>6

\* Each method of the job has its encoding undone by the callback.
LEMMA JobStateIsDecoded ==
    ASSUME NEW state
    PROVE  Encodes(<<"JobStateUpdated", 0>>, <<state>>, GetJobStateValue(state))
  <1>1. GetJobStateValue(state).state.value = state
    BY DEF GetJobStateValue, kJobStateAnyValue, UInt32, Scalar
  <1> QED BY <1>1, CallbacksByFields

\* ToAnyValue is undone by ToInstructionState.
LEMMA InstructionStateIsDecoded ==
    ASSUME NEW i, NEW state
    PROVE  Encodes(<<"InstructionStateUpdated", i>>, <<state>>, ToAnyValue(state))
  <1>1. ToAnyValue(state).exec_state.value = state
    BY DEF ToAnyValue, UInt32, Scalar
  <1> QED BY <1>1, CallbacksByFields

\* GetBreakpointInstructionValue is undone.
LEMMA BreakpointIsDecoded ==
    ASSUME NEW i
    PROVE  Encodes(<<"BreakpointInstructionUpdated", 0>>, <<i>>,
                   GetBreakpointInstructionValue(i))
  <1>1. GetBreakpointInstructionValue(i).index.value = i
    BY DEF GetBreakpointInstructionValue, UInt32, Scalar
  <1> QED BY <1>1, CallbacksByFields

\* EncodeVariableState is undone, or its value is empty and ignored.
LEMMA VariableIsDecoded ==
    ASSUME NEW i, NEW value, NEW connected
    PROVE  Encodes(<<"VariableUpdated", i>>, <<value, connected>>,
                   EncodeVariableState(value, connected))
  <1> DEFINE av == EncodeVariableState(value, connected)
  <1>1. av = [var_value |-> value,
              var_connected |-> [type |-> "bool", value |-> connected]]
    BY DEF EncodeVariableState, Bool, Scalar
  <1>2. ValidateVariableAnyValue(av)
    <2> HIDE DEF av
    <2> QED BY <1>1 DEF ValidateVariableAnyValue, HasField, ValidateMemberType,
                        kVariableValueField, kVariableConnectedField
  <1>3. DecodeVariableState(av) = <<value, connected>>
    <2> HIDE DEF av
    <2> QED BY <1>1, <1>2 DEF DecodeVariableState
  <1> HIDE DEF av
  <1>4. Encodes(<<"VariableUpdated", i>>, <<value, connected>>, av)
    BY <1>3, CallbacksByInfo DEF Encodes, UpdateVariableState, ListenerCall
  <1> QED BY <1>4 DEF av

\* EncodeLogEntry is undone.
LEMMA LogIsDecoded ==
    ASSUME NEW index, NEW severity, NEW message
    PROVE  Encodes(<<"Log", 0>>, <<severity, message>>,
                   EncodeLogEntry(LogEntry(index, severity, message)))
  <1> DEFINE av == EncodeLogEntry(LogEntry(index, severity, message))
  <1>1. av.severity.value = severity /\ av.message.value = message
    BY DEF EncodeLogEntry, LogEntry, kLogEntryAnyValue, UInt64, Int32, String, Scalar
  <1> HIDE DEF av
  <1>2. Encodes(<<"Log", 0>>, <<severity, message>>, av)
    BY <1>1, CallbacksByFields
  <1> QED BY <1>2 DEF av

\* EncodeMessageEntry is undone.
LEMMA MessageIsDecoded ==
    ASSUME NEW index, NEW message
    PROVE  Encodes(<<"Message", 0>>, <<message>>,
                   EncodeMessageEntry(MessageEntry(index, message)))
  <1> DEFINE av == EncodeMessageEntry(MessageEntry(index, message))
  <1>1. av.message.value = message
    BY DEF EncodeMessageEntry, MessageEntry, kMessageEntryAnyValue, UInt64, String,
           Scalar
  <1> HIDE DEF av
  <1>2. Encodes(<<"Message", 0>>, <<message>>, av)
    BY <1>1, CallbacksByFields
  <1> QED BY <1>2 DEF av

\* EncodeOutputValueEntry is undone.
LEMMA OutputValueIsDecoded ==
    ASSUME NEW index, NEW description, NEW value
    PROVE  Encodes(<<"PutValue", 0>>, <<value, description>>,
                   EncodeOutputValueEntry(OutputValueEntry(index, description, value)))
  <1> DEFINE av == EncodeOutputValueEntry(OutputValueEntry(index, description, value))
  <1>1. av.description.value = description /\ av.value = value
    BY DEF EncodeOutputValueEntry, OutputValueEntry, kOutputValueEntryAnyValue,
           UInt64, String, Scalar
  <1> HIDE DEF av
  <1>2. Encodes(<<"PutValue", 0>>, <<value, description>>, av)
    BY <1>1, CallbacksByFields
  <1> QED BY <1>2 DEF av

\* The initial values lead to what the constructor is to tell.
LEMMA InitialValuesAreDecoded ==
    ASSUME NEW object \in Objects
    PROVE  Encodes(object, InitialArgs(object), InitialValue(object))
  <1>1. CASE object = <<"JobStateUpdated", 0>>
    BY <1>1, JobStateIsDecoded DEF InitialArgs, InitialValue
  <1>2. CASE object = <<"BreakpointInstructionUpdated", 0>>
    BY <1>2, BreakpointIsDecoded DEF InitialArgs, InitialValue
  <1>3. CASE object = <<"Log", 0>>
    <2>1. kLogEntryAnyValue.severity.value = 0 /\ kLogEntryAnyValue.message.value = 0
      BY DEF kLogEntryAnyValue, UInt64, Int32, String, Scalar
    <2>2. InitialValue(object) = kLogEntryAnyValue /\ InitialArgs(object) = <<0, 0>>
      BY <1>3 DEF InitialArgs, InitialValue
    <2> QED BY <1>3, <2>1, <2>2, CallbacksByFields
  <1>4. CASE object = <<"Message", 0>>
    <2>1. kMessageEntryAnyValue.message.value = 0
      BY DEF kMessageEntryAnyValue, UInt64, String, Scalar
    <2>2. InitialValue(object) = kMessageEntryAnyValue /\ InitialArgs(object) = <<0>>
      BY <1>4 DEF InitialArgs, InitialValue, kInitial
    <2> QED BY <1>4, <2>1, <2>2, CallbacksByFields
  <1>5. CASE object = <<"PutValue", 0>>
    <2>1. /\ kOutputValueEntryAnyValue.value = EmptyValue
          /\ kOutputValueEntryAnyValue.description.value = 0
      BY DEF kOutputValueEntryAnyValue, UInt64, String, Scalar
    <2>2. /\ InitialValue(object) = kOutputValueEntryAnyValue
          /\ InitialArgs(object) = <<EmptyValue, 0>>
      BY <1>5 DEF InitialArgs, InitialValue
    <2> QED BY <1>5, <2>1, <2>2, CallbacksByFields
  <1>6. CASE \E i \in 0..(NVars - 1) : object = <<"VariableUpdated", i>>
    <2>1. PICK i \in 0..(NVars - 1) : object = <<"VariableUpdated", i>>
      BY <1>6
    <2>2. CreateCallback(InfoFor(object), kVariableAnyValue)
             = UpdateVariableState(i, kVariableAnyValue)
      BY <2>1 DEF InfoFor, ValueNameInfo, CreateCallback
    <2>3. DecodeVariableState(kVariableAnyValue)[1] = EmptyValue
      BY DEF DecodeVariableState, kVariableAnyValue
    <2>4. UpdateVariableState(i, kVariableAnyValue) = {}
      BY <2>3 DEF UpdateVariableState, IsEmptyValue, EmptyValue, Scalar
    <2>5. InitialValue(object) = kVariableAnyValue
      BY <2>1 DEF InitialValue
    <2> QED BY <2>2, <2>4, <2>5 DEF Encodes
  <1>7. CASE \E i \in 0..(NInstr - 1) : object = <<"InstructionStateUpdated", i>>
    <2>1. PICK i \in 0..(NInstr - 1) : object = <<"InstructionStateUpdated", i>>
      BY <1>7
    <2>2. /\ InitialValue(object) = ToAnyValue(0)
          /\ InitialArgs(object) = <<0>>
      BY <2>1 DEF InitialArgs, InitialValue, kInstructionStateAnyValue, kInitial
    <2> QED BY <2>1, <2>2, InstructionStateIsDecoded
  <1> QED BY <1>1, <1>2, <1>3, <1>4, <1>5, <1>6, <1>7, ObjectCases

\* The codec of sup-protocol is undone.
LEMMA CodecIsUndone ==
    ASSUME NEW value
    PROVE  Base64DecodeAnyValue(Base64EncodeAnyValue(value)) = {value}
  BY DEF Base64DecodeAnyValue, Base64EncodeAnyValue, HasField

-----------------------------------------------------------------------------
(* The queues and histories as sequences.                                  *)

\* A sequence of anything is one of its own elements.
LEMMA SequenceIsSeq ==
    ASSUME NEW S, NEW s \in Seq(S)
    PROVE  IsSeq(s) /\ Len(s) \in Nat /\ DOMAIN s = 1..Len(s)
  <1>1. Len(s) \in Nat /\ DOMAIN s = 1..Len(s) /\ s = [i \in 1..Len(s) |-> s[i]]
    OBVIOUS
  <1>2. \A i \in 1..Len(s) : s[i] \in Range(s)
    BY <1>1 DEF Range
  <1>3. s \in [1..Len(s) -> Range(s)]
    BY <1>1, <1>2
  <1>4. s \in Seq(Range(s))
    BY <1>1, <1>3, SeqDef
  <1> QED BY <1>1, <1>4 DEF IsSeq

\* Its length, and when it is empty.
LEMMA LengthOfSeq ==
    ASSUME NEW s, IsSeq(s)
    PROVE  /\ Len(s) \in Nat /\ DOMAIN s = 1..Len(s)
           /\ s = <<>> <=> Len(s) = 0
  BY EmptySeq DEF IsSeq

\* Its elements after another one joined.
LEMMA AppendedSeq ==
    ASSUME NEW s, IsSeq(s), NEW e
    PROVE  /\ IsSeq(Append(s, e))
           /\ Len(Append(s, e)) = Len(s) + 1
           /\ DOMAIN Append(s, e) = 1..(Len(s) + 1)
           /\ \A i \in 1..Len(s) : Append(s, e)[i] = s[i]
           /\ Append(s, e)[Len(s) + 1] = e
           /\ Append(s, e) /= <<>>
  <1> DEFINE S == Range(s) \cup {e}
             t == Append(s, e)
  <1>1. s \in Seq(S) /\ e \in S
    BY SeqMonotonic DEF IsSeq
  <1> HIDE DEF S
  <1>2. t \in Seq(S)
    BY <1>1
  <1>3. /\ Len(t) = Len(s) + 1
        /\ \A i \in 1..Len(s) : t[i] = s[i]
        /\ t[Len(s) + 1] = e
    BY <1>1
  <1>4. Len(s) \in Nat
    BY <1>1
  <1> HIDE DEF t
  <1>5. IsSeq(t) /\ DOMAIN t = 1..Len(t)
    BY <1>2, SequenceIsSeq
  <1>6. t /= <<>>
    BY <1>3, <1>4, <1>5, LengthOfSeq
  <1> QED BY <1>3, <1>5, <1>6 DEF t

\* Its elements after the first one left.
LEMMA TailOfSeq ==
    ASSUME NEW s, IsSeq(s), s /= <<>>
    PROVE  /\ IsSeq(Tail(s))
           /\ Len(s) >= 1
           /\ Head(s) = s[1]
           /\ Len(Tail(s)) = Len(s) - 1
           /\ DOMAIN Tail(s) = 1..(Len(s) - 1)
           /\ \A i \in 1..(Len(s) - 1) : Tail(s)[i] = s[i + 1] /\ i + 1 \in 1..Len(s)
  <1> DEFINE S == Range(s)
             t == Tail(s)
  <1>1. s \in Seq(S) /\ Len(s) \in Nat
    BY DEF IsSeq
  <1> HIDE DEF S
  <1>2. Len(s) >= 1 /\ Head(s) = s[1]
    BY <1>1, LengthOfSeq
  <1>3. t \in Seq(S) /\ Len(t) = Len(s) - 1
    BY <1>1
  <1>4. \A i \in 1..(Len(s) - 1) : t[i] = s[i + 1] /\ i + 1 \in 1..Len(s)
    BY <1>1
  <1> HIDE DEF t
  <1>5. IsSeq(t) /\ DOMAIN t = 1..Len(t)
    BY <1>3, SequenceIsSeq
  <1> QED BY <1>2, <1>3, <1>4, <1>5 DEF t

\* The initial sequences.
LEMMA EmptyIsSeq == IsSeq(<<>>) /\ DOMAIN <<>> = {} /\ Len(<<>>) = 0
  <1>1. <<>> \in Seq({})
    OBVIOUS
  <1>2. IsSeq(<<>>)
    BY <1>1, SequenceIsSeq
  <1> QED BY <1>2, LengthOfSeq

\* A sequence of one element.
LEMMA SingleIsSeq ==
    ASSUME NEW e
    PROVE  /\ IsSeq(<<e>>) /\ DOMAIN <<e>> = {1} /\ <<e>>[1] = e /\ <<e>> /= <<>>
           /\ Len(<<e>>) = 1
  <1>1. <<e>> \in Seq({e}) /\ Len(<<e>>) = 1 /\ <<e>>[1] = e
    OBVIOUS
  <1>2. IsSeq(<<e>>)
    BY <1>1, SequenceIsSeq
  <1> QED BY <1>1, <1>2, LengthOfSeq

-----------------------------------------------------------------------------
(* The reports of the job.                                                 *)

\* The names under which the methods of IJobInfoIO report.
LEMMA NamesByMethod ==
    /\ NameOf[<<"JobStateUpdated", 0>>] = GetJobStatePVName(m_job_prefix)
    /\ NameOf[<<"BreakpointInstructionUpdated", 0>>]
          = GetBreakpointInstructionPVName(m_job_prefix)
    /\ NameOf[<<"Log", 0>>] = GetLogEntryName(m_job_prefix)
    /\ NameOf[<<"Message", 0>>] = GetMessageEntryName(m_job_prefix)
    /\ NameOf[<<"PutValue", 0>>] = GetOutputValueEntryName(m_job_prefix)
    /\ \A i \in 0..(NVars - 1) :
          NameOf[<<"VariableUpdated", i>>] = GetVariablePVName(m_job_prefix, i)
    /\ \A i \in 0..(NInstr - 1) :
          NameOf[<<"InstructionStateUpdated", i>>]
             = GetInstructionPVName(m_job_prefix, i)
  BY ObjectCases DEF NameOf

\* What a report about an object does to the server.
Publishes(object, args, value) ==
    /\ Encodes(object, args, value)
    /\ UpdateAnyValue(object, args, NameOf[object], value)

\* A report is about an object, under its name, encoded for its callback.
LEMMA ReportsPublish ==
    ASSUME JobReports
    PROVE  \/ /\ \E object \in Objects : \E args, value : Publishes(object, args, value)
              /\ reports < MaxReports /\ reports' = reports + 1
              /\ UNCHANGED <<m_last_idx, entry>>
           \/ \E t \in Threads, kind \in Entries : TakeIndex(t, kind)
  <1> DEFINE data == reports + 1
             Goal == /\ \E object \in Objects : \E args, value :
                           Publishes(object, args, value)
                     /\ reports < MaxReports /\ reports' = reports + 1
                     /\ UNCHANGED <<m_last_idx, entry>>
  <1>1. ASSUME NEW object \in Objects, NEW args, NEW value,
               Encodes(object, args, value),
               Report(object, args, NameOf[object], value)
        PROVE  Goal
    BY <1>1 DEF Report, NewReport, Publishes
  <1> HIDE DEF Goal
  <1>2. ASSUME JobStateUpdated(data)
        PROVE  Goal
    BY <1>1, <1>2, NamesByMethod, JobStateIsDecoded, ObjectCases DEF JobStateUpdated
  <1>3. ASSUME BreakpointInstructionUpdated(data)
        PROVE  Goal
    BY <1>1, <1>3, NamesByMethod, BreakpointIsDecoded, ObjectCases
    DEF BreakpointInstructionUpdated
  <1>4. ASSUME NEW i \in 0..(NInstr - 1), InstructionStateUpdated(i, data)
        PROVE  Goal
    <2>1. <<"InstructionStateUpdated", i>> \in Objects
      BY ObjectCases
    <2> QED BY <1>1, <1>4, <2>1, NamesByMethod, InstructionStateIsDecoded
            DEF InstructionStateUpdated
  <1>5. ASSUME NEW i \in 0..(NVars - 1), NEW value, NEW connected,
               VariableUpdated(i, value, connected)
        PROVE  Goal
    <2>1. <<"VariableUpdated", i>> \in Objects
      BY ObjectCases
    <2> QED BY <1>1, <1>5, <2>1, NamesByMethod, VariableIsDecoded
            DEF VariableUpdated
  <1> QED BY <1>2, <1>3, <1>4, <1>5 DEF JobReports, Goal

\* And so is the second step of an entry.
LEMMA EntriesPublish ==
    ASSUME TypeOK, NEW t \in Threads, FinishEntry(t)
    PROVE  /\ entry[t] /= NoEntry
           /\ entry[t].kind \in Entries
           /\ <<entry[t].kind, 0>> \in Objects
           /\ \E args, value : Publishes(<<entry[t].kind, 0>>, args, value)
           /\ entry' = [entry EXCEPT ![t] = NoEntry]
           /\ UNCHANGED <<m_last_idx, reports>>
  <1>1. entry[t] /= NoEntry
    BY DEF FinishEntry
  <1>2. CASE entry[t].kind = "PutValue" /\ PutValue(t, entry[t])
    BY <1>1, <1>2, NamesByMethod, OutputValueIsDecoded, ObjectCases
    DEF PutValue, PutEntry, Publishes, Entries
  <1>3. CASE entry[t].kind = "Message" /\ Message(t, entry[t])
    BY <1>1, <1>3, NamesByMethod, MessageIsDecoded, ObjectCases
    DEF Message, PutEntry, Publishes, Entries
  <1>4. CASE entry[t].kind = "Log" /\ Log(t, entry[t])
    BY <1>1, <1>4, NamesByMethod, LogIsDecoded, ObjectCases
    DEF Log, PutEntry, Publishes, Entries
  <1> QED BY <1>2, <1>3, <1>4 DEF FinishEntry

\* The report joins the queue of its set and the history of its object.
Queued(object, args, value) ==
    /\ updates' = [updates EXCEPT ![SetOf(object)] =
          Append(@, [name |-> NameOf[object], value |-> value,
                     serial |-> Len(published[object]) + 1])]
    /\ published' = [published EXCEPT ![object] = Append(@, args)]
    /\ UNCHANGED shown

\* It does so, or it is dropped because its set is not registered.
LEMMA PublishedIsQueued ==
    ASSUME TypeOK, NEW object \in Objects, NEW args, NEW value,
           Publishes(object, args, value)
    PROVE  /\ UNCHANGED registered
           /\ \/ Queued(object, args, value)
              \/ UNCHANGED <<updates, published, shown>>
           /\ SetOf(object) = "job" => Queued(object, args, value)
  <1>1. registered \subseteq Sets /\ "job" \in registered
    BY DEF TypeOK, ServerTypeOK, Sets
  <1>2. UNCHANGED <<registered, shown>>
    BY DEF Publishes, UpdateAnyValue
  <1>3. ASSUME NEW s \in registered, NameOf[object] \in NamesOf[s],
               updates' = [updates EXCEPT ![s] =
                   Push([name |-> NameOf[object], value |-> value,
                         serial |-> Len(published[object]) + 1], @)],
               published' = [published EXCEPT ![object] = Append(@, args)]
        PROVE  Queued(object, args, value)
    <2>1. s = SetOf(object)
      BY <1>1, <1>3, NamesAreOfObjects
    <2> QED BY <1>2, <1>3, <2>1 DEF Queued, Push
  <1>4. CASE /\ \A s \in registered : NameOf[object] \notin NamesOf[s]
             /\ UNCHANGED <<updates, published>>
    <2>1. SetOf(object) /= "job"
      BY <1>1, <1>4, NamesAreOfObjects
    <2> QED BY <1>2, <1>4, <2>1
  <1> QED BY <1>2, <1>3, <1>4 DEF Publishes, UpdateAnyValue

\* The steps of the server, as far as the values go.
LEMMA ServerSteps ==
    ASSUME TypeOK, ServerNext
    PROVE  \/ UNCHANGED <<updates, shown, published>>
           \/ \E object \in Objects : \E args, value :
                 Encodes(object, args, value) /\ Queued(object, args, value)
           \/ \E s \in Sets : Serve(s) \/ Show(s)
  <1>1. CASE JobReports
    BY <1>1, ReportsPublish, PublishedIsQueued DEF TakeIndex, Publishes
  <1>2. ASSUME NEW t \in Threads, FinishEntry(t)
        PROVE  \/ UNCHANGED <<updates, shown, published>>
               \/ \E object \in Objects : \E args, value :
                     Encodes(object, args, value) /\ Queued(object, args, value)
    BY <1>2, EntriesPublish, PublishedIsQueued DEF Publishes
  <1> QED BY <1>1, <1>2 DEF ServerNext, InitNumberOfInstructions, ServerWorks

-----------------------------------------------------------------------------
(* Type correctness.                                                       *)

\* The initial values have their types.
LEMMA TypeInit == Init => TypeOK
  <1> SUFFICES ASSUME Init PROVE TypeOK
    OBVIOUS
  <1>1. ServerTypeOK
    <2>1. m_last_idx \in [Entries -> 0..(IndexModulus - 1)]
      BY IndexModulusAssumption DEF Init, ServerInit
    <2>2. reports \in 0..MaxReports
      BY BoundsAssumption DEF Init, ServerInit
    <2> QED BY <2>1, <2>2, EmptyIsSeq DEF Init, ServerInit, ServerTypeOK
  <1>2. ManagerTypeOK
    BY DEF Init, ManagerInit, ManagerTypeOK
  <1>3. done \in 0..Len(ValueSet[set]) /\ set \in Sets
    <2>1. set \in Sets /\ done = 0
      BY DEF Init, Sets
    <2> QED BY <2>1, SetsListObjects
  <1> QED BY <1>1, <1>2, <1>3 DEF Init, TypeOK

\* A queued report keeps the types of the queues and histories.
LEMMA QueuedTypes ==
    ASSUME ServerTypeOK, NEW object \in Objects, NEW args, NEW value,
           Queued(object, args, value)
    PROVE  /\ DOMAIN updates' = Sets
           /\ \A s \in Sets :
                 /\ IsSeq(updates'[s])
                 /\ \A i \in DOMAIN updates'[s] : updates'[s][i].name \in NamesOf[s]
           /\ DOMAIN published' = Objects
           /\ \A p \in Objects : IsSeq(published'[p])
  <1> DEFINE s == SetOf(object)
             update == [name |-> NameOf[object], value |-> value,
                        serial |-> Len(published[object]) + 1]
  <1>1. s \in Sets /\ update.name \in NamesOf[s]
    BY SetsListObjects, NamesAreOfObjects
  <1>2. /\ DOMAIN updates' = Sets
        /\ updates'[s] = Append(updates[s], update)
        /\ \A r \in Sets : r /= s => updates'[r] = updates[r]
    BY <1>1 DEF Queued, ServerTypeOK
  <1>3. /\ DOMAIN published' = Objects
        /\ published'[object] = Append(published[object], args)
        /\ \A p \in Objects : p /= object => published'[p] = published[p]
    BY DEF Queued, ServerTypeOK
  <1> HIDE DEF s, update
  <1>4. /\ IsSeq(updates[s])
        /\ \A i \in DOMAIN updates[s] : updates[s][i].name \in NamesOf[s]
    BY <1>1 DEF ServerTypeOK
  <1>5. /\ IsSeq(updates'[s])
        /\ \A i \in DOMAIN updates'[s] : updates'[s][i].name \in NamesOf[s]
    <2>1. /\ IsSeq(updates'[s])
          /\ DOMAIN updates'[s] = 1..(Len(updates[s]) + 1)
          /\ \A i \in 1..Len(updates[s]) : updates'[s][i] = updates[s][i]
          /\ updates'[s][Len(updates[s]) + 1] = update
      BY <1>2, <1>4, AppendedSeq
    <2>2. Len(updates[s]) \in Nat /\ DOMAIN updates[s] = 1..Len(updates[s])
      BY <1>4, LengthOfSeq
    <2> QED BY <1>1, <1>4, <2>1, <2>2
  <1>6. \A p \in Objects : IsSeq(published[p])
    BY DEF ServerTypeOK
  <1>7. \A p \in Objects : IsSeq(published'[p])
    <2>1. IsSeq(Append(published[object], args))
      BY <1>6, AppendedSeq
    <2> QED BY <1>3, <1>6, <2>1
  <1> QED BY <1>2, <1>3, <1>5, <1>7 DEF ServerTypeOK

\* A value joins those that were shown.
LEMMA ShowTypes ==
    ASSUME ServerTypeOK, NEW s \in Sets, Show(s)
    PROVE  LET update == updates[s][1]
           IN  /\ update.name \in NamesOf[s] /\ update.name \in Names
               /\ DOMAIN updates' = Sets
               /\ updates'[s] = Tail(updates[s])
               /\ updates[s] /= <<>> /\ IsSeq(updates[s])
               /\ \A r \in Sets : r /= s => updates'[r] = updates[r]
               /\ DOMAIN shown' = Names
               /\ shown'[update.name] = Append(shown[update.name],
                                               Value(update.serial, update.value))
               /\ \A name \in Names : name /= update.name => shown'[name] = shown[name]
  <1> DEFINE update == updates[s][1]
  <1>1. updates[s] /= <<>> /\ IsSeq(updates[s]) /\ Head(updates[s]) = update
    <2>1. updates[s] /= <<>> /\ IsSeq(updates[s])
      BY DEF Show, ServerTypeOK
    <2> QED BY <2>1, TailOfSeq
  <1>2. 1 \in DOMAIN updates[s]
    BY <1>1, TailOfSeq, LengthOfSeq
  <1>3. update.name \in NamesOf[s] /\ update.name \in Names
    BY <1>2, NamesAreOfObjects DEF ServerTypeOK
  <1>4. /\ shown' = [shown EXCEPT ![update.name] =
                       Append(@, Value(update.serial, update.value))]
        /\ updates' = [updates EXCEPT ![s] = Tail(@)]
    BY <1>1 DEF Show
  <1> HIDE DEF update
  <1>5. /\ DOMAIN updates = Sets /\ DOMAIN shown = Names
    BY DEF ServerTypeOK
  <1>6. /\ DOMAIN shown' = Names
        /\ shown'[update.name] = Append(shown[update.name],
                                        Value(update.serial, update.value))
        /\ \A name \in Names : name /= update.name => shown'[name] = shown[name]
    BY <1>3, <1>4, <1>5
  <1>7. /\ DOMAIN updates' = Sets
        /\ updates'[s] = Tail(updates[s])
        /\ \A r \in Sets : r /= s => updates'[r] = updates[r]
    BY <1>4, <1>5
  <1> QED BY <1>1, <1>3, <1>6, <1>7 DEF update

\* The first value of a name is the initial one of its object.
LEMMA ServedInitialValue ==
    ASSUME NEW s \in Sets, Serve(s)
    PROVE  /\ DOMAIN shown' = Names
           /\ \A name \in Names \ NamesOf[s] : shown'[name] = shown[name]
           /\ \A object \in Objects : SetOf(object) = s =>
                 shown'[NameOf[object]] = <<Value(0, InitialValue(object))>>
  <1>1. shown' = [name \in Names |->
          IF name \in NamesOf[s]
          THEN <<Value(0, ValueSet[s][SelectInSeq(ValueSet[s],
                                 LAMBDA pair : pair.name = name)].value)>>
          ELSE shown[name]]
    BY DEF Serve
  <1>2. ASSUME NEW object \in Objects, SetOf(object) = s
        PROVE  shown'[NameOf[object]] = <<Value(0, InitialValue(object))>>
    <2> DEFINE name == NameOf[object]
               I == {i \in 1..Len(ValueSet[s]) : ValueSet[s][i].name = name}
               k == SelectInSeq(ValueSet[s], LAMBDA pair : pair.name = name)
    <2>1. name \in Names /\ name \in NamesOf[s]
      BY <1>2, NamesAreOfObjects
    <2>2. shown'[name] = <<Value(0, ValueSet[s][k].value)>>
      BY <1>1, <2>1
    <2>3. I \in SUBSET Nat /\ I /= {}
      <3>1. \E i \in 1..Len(ValueSet[s]) : ValueSet[s][i] = PairOf(object)
        BY <1>2, SetsListObjects
      <3> QED BY <3>1 DEF PairOf, NameAnyValuePair
    <2>4. k = Min(I)
      BY <2>3 DEF SelectInSeq
    <2>5. k \in I
      <3> HIDE DEF I, k
      <3> QED BY <2>3, <2>4, FirstPosition
    <2>6. k \in 1..Len(ValueSet[s]) /\ ValueSet[s][k].name = name
      BY <2>5
    <2> HIDE DEF k, I
    <2>7. PICK p \in Objects : ValueSet[s][k] = PairOf(p)
      BY <2>6, SetsListObjects
    <2>8. NameOf[p] = NameOf[object] /\ ValueSet[s][k].value = InitialValue(p)
      BY <2>6, <2>7 DEF PairOf, NameAnyValuePair
    <2>9. p = object
      BY <2>8, NamesIdentify
    <2> QED BY <2>2, <2>8, <2>9
  <1> QED BY <1>1, <1>2

\* Every step of the server keeps its types.
LEMMA ServerTypeStep ==
    ASSUME TypeOK, ServerNext
    PROVE  ServerTypeOK'
  <1> DEFINE Queues ==
                /\ DOMAIN updates = Sets
                /\ \A s \in Sets :
                      /\ IsSeq(updates[s])
                      /\ \A i \in DOMAIN updates[s] : updates[s][i].name \in NamesOf[s]
             Shown ==
                /\ DOMAIN shown = Names
                /\ \A name \in Names : IsSeq(shown[name])
             Published ==
                /\ DOMAIN published = Objects
                /\ \A object \in Objects : IsSeq(published[object])
             Rest ==
                /\ registered \in {{"job"}, Sets}
                /\ m_last_idx \in [Entries -> 0..(IndexModulus - 1)]
                /\ entry \in [Threads -> {NoEntry} \cup Entry]
                /\ reports \in 0..MaxReports
  <1>1. ServerTypeOK <=> Queues /\ Shown /\ Published /\ Rest
    BY DEF ServerTypeOK
  <1>2. ServerTypeOK' <=> Queues' /\ Shown' /\ Published' /\ Rest'
    BY DEF ServerTypeOK
  <1>3. ServerTypeOK /\ Queues /\ Shown /\ Published /\ Rest
    BY <1>1 DEF TypeOK
  <1>4. ASSUME NEW object \in Objects, NEW args, NEW value,
               Queued(object, args, value)
        PROVE  Queues' /\ Published' /\ Shown'
    <2>1. Queues' /\ Published'
      BY <1>3, <1>4, QueuedTypes
    <2>2. UNCHANGED shown
      BY <1>4 DEF Queued
    <2> QED BY <1>3, <2>1, <2>2
  <1>5. ASSUME NEW object \in Objects, NEW args, NEW value,
               Publishes(object, args, value)
        PROVE  Queues' /\ Published' /\ Shown' /\ UNCHANGED registered
    <2>1. CASE Queued(object, args, value)
      BY <1>4, <1>5, <2>1, PublishedIsQueued
    <2>2. CASE UNCHANGED <<updates, published, shown>>
      BY <1>3, <1>5, <2>2, PublishedIsQueued
    <2> QED BY <1>5, <2>1, <2>2, PublishedIsQueued
  <1>6. CASE JobReports
    <2>1. CASE /\ \E object \in Objects : \E args, value :
                     Publishes(object, args, value)
               /\ reports < MaxReports /\ reports' = reports + 1
               /\ UNCHANGED <<m_last_idx, entry>>
      <3>1. Queues' /\ Published' /\ Shown' /\ UNCHANGED registered
        BY <1>5, <2>1
      <3>2. reports' \in 0..MaxReports
        BY <1>3, <2>1, BoundsAssumption
      <3>3. Rest'
        BY <1>3, <2>1, <3>1, <3>2
      <3> QED BY <1>2, <3>1, <3>3
    <2>2. ASSUME NEW t \in Threads, NEW kind \in Entries, TakeIndex(t, kind)
          PROVE  ServerTypeOK'
      <3>1. UNCHANGED <<registered, updates, shown, published>>
        BY <2>2 DEF TakeIndex
      <3>2. Queues' /\ Published' /\ Shown'
        BY <1>3, <3>1
      <3>3. NewIndex(kind) \in 0..(IndexModulus - 1) /\ NewIndex(kind) \in Nat
        <4>1. m_last_idx[kind] \in 0..(IndexModulus - 1)
          BY <1>3
        <4>2. (m_last_idx[kind] + 1) % IndexModulus \in 0..(IndexModulus - 1)
          BY <4>1, IndexModulusAssumption
        <4> QED BY <4>2, IndexModulusAssumption DEF NewIndex
      <3>4. m_last_idx' \in [Entries -> 0..(IndexModulus - 1)]
        BY <1>3, <2>2, <3>3 DEF TakeIndex
      <3>5. reports' \in 0..MaxReports /\ reports + 1 \in Nat
        BY <1>3, <2>2, BoundsAssumption DEF TakeIndex, NewReport
      <3>6. [kind |-> kind, index |-> NewIndex(kind), data |-> reports + 1] \in Entry
        BY <3>3, <3>5 DEF Entry
      <3>7. entry' \in [Threads -> {NoEntry} \cup Entry]
        BY <1>3, <2>2, <3>6 DEF TakeIndex
      <3> QED BY <1>2, <1>3, <3>1, <3>2, <3>4, <3>5, <3>7
    <2> QED BY <1>6, <2>1, <2>2, ReportsPublish
  <1>7. ASSUME NEW t \in Threads, FinishEntry(t)
        PROVE  ServerTypeOK'
    <2>1. /\ <<entry[t].kind, 0>> \in Objects
          /\ \E args, value : Publishes(<<entry[t].kind, 0>>, args, value)
          /\ entry' = [entry EXCEPT ![t] = NoEntry]
          /\ UNCHANGED <<m_last_idx, reports>>
      BY <1>7, EntriesPublish
    <2>2. Queues' /\ Published' /\ Shown' /\ UNCHANGED registered
      BY <1>5, <2>1
    <2>3. Rest'
      BY <1>3, <2>1, <2>2
    <2> QED BY <1>2, <2>2, <2>3
  <1>8. CASE InitNumberOfInstructions
    <2>1. UNCHANGED <<updates, shown, m_last_idx, entry, reports, published>>
      BY <1>8 DEF InitNumberOfInstructions
    <2>2. registered' \in {{"job"}, Sets}
      BY <1>3, <1>8 DEF InitNumberOfInstructions, Sets
    <2> QED BY <1>2, <1>3, <2>1, <2>2
  <1>9. ASSUME NEW s \in Sets, Serve(s)
        PROVE  ServerTypeOK'
    <2>1. UNCHANGED <<registered, updates, m_last_idx, entry, reports, published>>
      BY <1>9 DEF Serve
    <2>2. ASSUME NEW name \in Names
          PROVE  IsSeq(shown'[name])
      <3>1. CASE name \in NamesOf[s]
        <4>1. PICK object \in Objects : SetOf(object) = s /\ name = NameOf[object]
          BY <3>1, NamesAreOfObjects
        <4>2. shown'[name] = <<Value(0, InitialValue(object))>>
          BY <1>9, <4>1, ServedInitialValue
        <4> QED BY <4>2, SingleIsSeq
      <3>2. CASE name \notin NamesOf[s]
        BY <1>3, <1>9, <3>2, ServedInitialValue
      <3> QED BY <3>1, <3>2
    <2>3. Shown'
      BY <1>9, <2>2, ServedInitialValue
    <2> QED BY <1>2, <1>3, <2>1, <2>3
  <1>10. ASSUME NEW s \in Sets, Show(s)
         PROVE  ServerTypeOK'
    <2> DEFINE update == updates[s][1]
    <2>1. /\ update.name \in Names
          /\ DOMAIN updates' = Sets
          /\ updates'[s] = Tail(updates[s])
          /\ updates[s] /= <<>> /\ IsSeq(updates[s])
          /\ \A r \in Sets : r /= s => updates'[r] = updates[r]
          /\ DOMAIN shown' = Names
          /\ shown'[update.name] = Append(shown[update.name],
                                          Value(update.serial, update.value))
          /\ \A name \in Names : name /= update.name => shown'[name] = shown[name]
      BY <1>3, <1>10, ShowTypes
    <2> HIDE DEF update
    <2>2. Shown'
      <3>1. IsSeq(Append(shown[update.name], Value(update.serial, update.value)))
        BY <1>3, <2>1, AppendedSeq
      <3> QED BY <1>3, <2>1, <3>1
    <2>3. /\ IsSeq(updates'[s])
          /\ \A i \in DOMAIN updates'[s] : updates'[s][i].name \in NamesOf[s]
      <3>1. /\ IsSeq(Tail(updates[s]))
            /\ DOMAIN Tail(updates[s]) = 1..(Len(updates[s]) - 1)
            /\ \A i \in 1..(Len(updates[s]) - 1) :
                  Tail(updates[s])[i] = updates[s][i + 1] /\ i + 1 \in 1..Len(updates[s])
        BY <2>1, TailOfSeq
      <3>2. DOMAIN updates[s] = 1..Len(updates[s])
        BY <2>1, LengthOfSeq
      <3>3. \A i \in 1..Len(updates[s]) : updates[s][i].name \in NamesOf[s]
        BY <1>3, <3>2
      <3>4. \A i \in DOMAIN Tail(updates[s]) : Tail(updates[s])[i].name \in NamesOf[s]
        BY <3>1, <3>3
      <3> QED BY <2>1, <3>1, <3>4, Zenon
    <2>4. Queues'
      BY <1>3, <2>1, <2>3
    <2>5. UNCHANGED <<registered, m_last_idx, entry, reports, published>>
      BY <1>10 DEF Show
    <2> QED BY <1>2, <1>3, <2>2, <2>4, <2>5
  <1> QED BY <1>6, <1>7, <1>8, <1>9, <1>10 DEF ServerNext, ServerWorks

\* A pair the constructor adds is that of an object.
LEMMA PairIsOfObject ==
    ASSUME TypeOK, More
    PROVE  /\ done + 1 \in 1..Len(ValueSet[set]) /\ done \in Nat
           /\ \E object \in Objects : SetOf(object) = set /\ Pair = PairOf(object)
  <1>1. set \in Sets /\ done \in 0..Len(ValueSet[set]) /\ Len(ValueSet[set]) \in Nat
    BY SetsListObjects DEF TypeOK
  <1>2. done + 1 \in 1..Len(ValueSet[set]) /\ done \in Nat
    BY <1>1 DEF More
  <1> QED BY <1>1, <1>2, SetsListObjects DEF Pair

\* What the listener may be told keeps its type.
LEMMA TellType ==
    ASSUME DOMAIN told = ListenerObjects, NEW serial, NEW calls, Tell(serial, calls)
    PROVE  DOMAIN told' = ListenerObjects
  BY DEF Tell

\* Every step keeps the types, of the constructor and the callbacks thanks to
\* what else the invariant says of them.
LEMMA TypeStep == IndInv /\ [Next]_vars => TypeOK'
  <1> SUFFICES ASSUME IndInv, [Next]_vars
               PROVE  TypeOK'
    OBVIOUS
  <1>0. TypeOK /\ CallbackIsThere /\ ConstructorInOrder
    BY DEF IndInv
  <1> DEFINE Client ==
                /\ stage \in {"rpc", "tell", "insert", "monitor", "alive", "destroy",
                              "destroyed", "failed"}
                /\ set \in Sets
                /\ done \in 0..Len(ValueSet[set])
             Monitors ==
                /\ monitors \in SUBSET Names
                /\ seen \in [Names -> Nat]
                /\ DOMAIN worker = Workers
  <1>1. TypeOK <=> ServerTypeOK /\ ManagerTypeOK /\ Client /\ Monitors
    BY DEF TypeOK
  <1>2. TypeOK' <=> ServerTypeOK' /\ ManagerTypeOK' /\ Client' /\ Monitors'
    BY DEF TypeOK
  <1>3. ServerTypeOK /\ ManagerTypeOK /\ Client /\ Monitors
    BY <1>0, <1>1
  <1>4. ASSUME UNCHANGED serverVars PROVE ServerTypeOK'
    BY <1>3, <1>4 DEF serverVars, ServerTypeOK
  <1>5. ASSUME UNCHANGED managerVars PROVE ManagerTypeOK'
    BY <1>3, <1>5 DEF managerVars, ManagerTypeOK
  <1>6. ASSUME UNCHANGED clientVars PROVE Client'
    BY <1>3, <1>6 DEF clientVars
  <1>7. ASSUME UNCHANGED monitorVars PROVE Monitors'
    BY <1>3, <1>7 DEF monitorVars
  <1>8. \A s \in Sets : 0 \in 0..Len(ValueSet[s])
    BY SetsListObjects
  <1>9. "job" \in Sets /\ "instructions" \in Sets
    BY DEF Sets
  <1> HIDE DEF Client, Monitors
  <1>10. CASE Server
    BY <1>0, <1>2, <1>5, <1>6, <1>7, <1>10, ServerTypeStep DEF Server
  <1>11. CASE AskServer
    <2>1. Client'
      BY <1>8, <1>9, <1>11 DEF AskServer, Goto, Client
    <2> QED BY <1>2, <1>4, <1>5, <1>7, <1>11, <2>1 DEF AskServer
  <1>12. CASE TellInitial
    <2>1. Client'
      BY <1>3, <1>12 DEF TellInitial, Goto, Client
    <2>2. ManagerTypeOK'
      BY <1>3, <1>12, TellType DEF TellInitial, TellInitialValue, ManagerTypeOK
    <2> QED BY <1>2, <1>4, <1>7, <1>12, <2>1, <2>2 DEF TellInitial
  <1>13. CASE Announce
    <2>1. Client'
      BY <1>3, <1>8, <1>13 DEF Announce, Goto, Client
    <2>2. ManagerTypeOK'
      BY <1>3, <1>13, TellType DEF Announce, TellNumberOfInstructions, ManagerTypeOK
    <2> QED BY <1>2, <1>4, <1>7, <1>13, <2>1, <2>2 DEF Announce
  <1>14. CASE AddMonitorPVs
    <2>1. Client'
      BY <1>8, <1>9, <1>14 DEF AddMonitorPVs, Goto, Client
    <2>2. NamesOf[set] \subseteq Names
      BY <1>3, NamesAreOfObjects DEF Client
    <2>3. Monitors'
      BY <1>3, <1>14, <2>2 DEF AddMonitorPVs, Monitors
    <2> QED BY <1>2, <1>4, <1>5, <1>14, <2>1, <2>3 DEF AddMonitorPVs
  <1>15. ASSUME NEW w \in Workers, NEW name \in Names,
                NEW position \in 1..Len(shown[name]), Deliver(w, name, position)
         PROVE  TypeOK'
    <2>1. position \in Nat
      BY <1>3, LengthOfSeq DEF ServerTypeOK
    <2>2. Monitors'
      BY <1>3, <1>15, <2>1 DEF Deliver, Monitors
    <2> QED BY <1>2, <1>4, <1>5, <1>6, <1>15, <2>2 DEF Deliver
  <1>16. ASSUME NEW w \in Workers, RunCallback(w)
         PROVE  TypeOK'
    <2>1. Monitors'
      BY <1>3, <1>16 DEF RunCallback, Monitors
    <2>2. DOMAIN told' = ListenerObjects
      BY <1>3, <1>16, TellType
      DEF RunCallback, UpdateFound, UpdateMissed, ManagerTypeOK
    <2>3. worker[w].name \in Names
      BY <1>0, <1>3, <1>16 DEF CallbackIsThere, RunCallback, Monitors
    <2>4. UNCHANGED m_cb_map /\ missed' \in SUBSET Names
      BY <1>3, <1>16, <2>3 DEF RunCallback, UpdateFound, UpdateMissed, ManagerTypeOK
    <2>5. ManagerTypeOK'
      BY <1>3, <2>2, <2>4 DEF ManagerTypeOK
    <2> QED BY <1>2, <1>4, <1>6, <1>16, <2>1, <2>5 DEF RunCallback
  <1>17. CASE DestroyMonitors
    <2>1. Client'
      BY <1>3, <1>8, <1>17 DEF DestroyMonitors, Goto, Client
    <2>2. Monitors'
      BY <1>3, <1>17 DEF DestroyMonitors, Monitors
    <2> QED BY <1>2, <1>4, <1>5, <1>17, <2>1, <2>2 DEF DestroyMonitors
  <1>18. CASE DestroyManager
    <2>1. Client'
      BY <1>3, <1>8, <1>18 DEF DestroyManager, Goto, Client
    <2>2. ManagerTypeOK'
      BY <1>3, <1>18 DEF DestroyManager, ManagerTypeOK
    <2> QED BY <1>2, <1>4, <1>7, <1>18, <2>1, <2>2 DEF DestroyManager
  <1>19. CASE Insert
    <2>1. More
      BY <1>0, <1>19 DEF ConstructorInOrder, Insert, Goto
    <2>2. done + 1 \in 0..Len(ValueSet[set])
      BY <1>0, <2>1, PairIsOfObject
    <2>3. Client'
      BY <1>3, <1>19, <2>2 DEF Insert, Goto, Client
    <2>4. PICK object \in Objects : Pair = PairOf(object)
      BY <1>0, <2>1, PairIsOfObject
    <2>5. Pair.name \in Names
      BY <2>4, NamesAreOfObjects DEF PairOf, NameAnyValuePair
    <2>6. ManagerTypeOK'
      BY <1>3, <1>19, <2>5 DEF Insert, AddCallback, ManagerTypeOK
    <2> QED BY <1>2, <1>4, <1>7, <1>19, <2>3, <2>6 DEF Insert
  <1>20. CASE UNCHANGED vars
    BY <1>2, <1>4, <1>5, <1>6, <1>7, <1>20 DEF vars
  <1> QED
    BY <1>10, <1>11, <1>12, <1>13, <1>14, <1>15, <1>16, <1>17, <1>18, <1>19, <1>20
    DEF Next, Constructor

-----------------------------------------------------------------------------
(* The constructor and the life of a callback.                             *)

\* What AddCallback puts in the map is a callback.
LEMMA AddedIsCallback ==
    ASSUME NEW object \in Objects, NEW pair, pair = PairOf(object)
    PROVE  pair.name = NameOf[object] /\ pair.name \in Names
           /\ InfoOf[pair.name] /= NoCallback
  <1>1. pair.name = NameOf[object]
    BY DEF PairOf, NameAnyValuePair
  <1> QED BY <1>1, NamesAreOfObjects, InfosIdentify, NoCallbackAssumption

\* Insert adds a callback and takes none away.
LEMMA InsertAdds ==
    ASSUME TypeOK, ConstructorInOrder, Insert
    PROVE  /\ More
           /\ m_cb_map'[Pair.name] /= NoCallback
           /\ \A name \in Names :
                 m_cb_map[name] /= NoCallback => m_cb_map'[name] /= NoCallback
  <1>1. More
    BY DEF ConstructorInOrder, Insert, Goto
  <1>2. PICK object \in Objects : Pair = PairOf(object)
    BY <1>1, PairIsOfObject
  <1>3. Pair.name \in Names /\ InfoOf[Pair.name] /= NoCallback
    BY <1>2, AddedIsCallback
  <1>4. m_cb_map' = [m_cb_map EXCEPT ![Pair.name] = InfoOf[Pair.name]]
    BY DEF Insert, AddCallback
  <1>5. DOMAIN m_cb_map = Names
    BY DEF TypeOK, ManagerTypeOK
  <1> QED BY <1>1, <1>3, <1>4, <1>5

\* The constructor keeps its order.
LEMMA ConstructorStep ==
    ASSUME TypeOK, ConstructorInOrder, [Next]_vars
    PROVE  ConstructorInOrder'
  <1>1. ASSUME UNCHANGED <<stage, set, done, m_cb_map, monitors>>
        PROVE  ConstructorInOrder'
    BY <1>1 DEF ConstructorInOrder, More
  <1>2. CASE AskServer
    <2>1. (stage' = "tell" \/ stage' = "failed") /\ done' = 0
      BY <1>2 DEF AskServer, Goto
    <2>2. 1..done' = {}
      BY <2>1
    <2> QED BY <2>1, <2>2 DEF ConstructorInOrder
  <1>3. CASE TellInitial
    <2>1. More /\ stage = "tell" /\ stage' = "insert"
          /\ UNCHANGED <<set, done, m_cb_map>>
      BY <1>3 DEF TellInitial, TellInitialValue, Goto
    <2> QED BY <2>1 DEF ConstructorInOrder, More
  <1>4. CASE Insert
    <2>1. stage = "insert" /\ stage' = "tell" /\ set' = set /\ done' = done + 1
      BY <1>4 DEF Insert, Goto
    <2>2. /\ More
          /\ m_cb_map'[Pair.name] /= NoCallback
          /\ \A name \in Names :
                m_cb_map[name] /= NoCallback => m_cb_map'[name] /= NoCallback
      BY <1>4, InsertAdds
    <2>3. done + 1 \in 1..Len(ValueSet[set]) /\ done \in Nat
      BY <2>2, PairIsOfObject
    <2>4. Len(ValueSet[set]) \in Nat /\ set \in Sets
      BY SetsListObjects DEF TypeOK
    <2>5. ASSUME NEW i \in 1..(done + 1)
          PROVE  m_cb_map'[ValueSet[set][i].name] /= NoCallback
      <3>1. CASE i = done + 1
        BY <2>2, <3>1 DEF Pair
      <3>2. CASE i /= done + 1
        <4>1. i \in 1..done /\ i \in 1..Len(ValueSet[set])
          BY <2>3, <2>4, <3>2
        <4>2. m_cb_map[ValueSet[set][i].name] /= NoCallback
          BY <2>1, <4>1 DEF ConstructorInOrder
        <4>3. PICK object \in Objects : ValueSet[set][i] = PairOf(object)
          BY <2>4, <4>1, SetsListObjects
        <4>4. ValueSet[set][i].name \in Names
          BY <4>3, AddedIsCallback
        <4> QED BY <2>2, <4>2, <4>4
      <3> QED BY <3>1, <3>2
    <2> QED BY <2>1, <2>5 DEF ConstructorInOrder
  <1>5. CASE Announce
    <2>1. ~ More /\ stage = "tell" /\ stage' = "monitor" /\ set' = set
          /\ UNCHANGED m_cb_map
      BY <1>5 DEF Announce, TellNumberOfInstructions, Goto
    <2>2. done = Len(ValueSet[set]) /\ set \in Sets
      BY <2>1, SetsListObjects DEF TypeOK, More
    <2>3. ASSUME NEW name \in NamesOf[set]
          PROVE  m_cb_map[name] /= NoCallback
      <3>1. PICK i \in DOMAIN ValueSet[set] : name = ValueSet[set][i].name
        BY <2>2 DEF NamesOf, GetNames
      <3>2. i \in 1..done
        BY <2>2, SetsListObjects
      <3> QED BY <2>1, <3>1, <3>2 DEF ConstructorInOrder
    <2> QED BY <2>1, <2>3 DEF ConstructorInOrder
  <1>6. CASE AddMonitorPVs
    <2>1. (stage' = "tell" \/ stage' = "alive") /\ done' = 0
      BY <1>6 DEF AddMonitorPVs, Goto
    <2>2. 1..done' = {}
      BY <2>1
    <2> QED BY <2>1, <2>2 DEF ConstructorInOrder
  <1>7. CASE DestroyMonitors
    BY <1>7 DEF ConstructorInOrder, DestroyMonitors, Goto
  <1>8. CASE DestroyManager
    BY <1>8 DEF ConstructorInOrder, DestroyManager, Goto, monitorVars
  <1> QED
    BY <1>1, <1>2, <1>3, <1>4, <1>5, <1>6, <1>7, <1>8
    DEF Next, Server, Constructor, Deliver, RunCallback, UpdateFound, UpdateMissed,
        vars, managerVars, clientVars, monitorVars

\* A callback outlives its monitor.
LEMMA CallbackStep ==
    ASSUME TypeOK, ConstructorInOrder, CallbackIsThere, [Next]_vars
    PROVE  CallbackIsThere'
  <1>1. ASSUME UNCHANGED <<m_cb_map, monitors, worker>>
        PROVE  CallbackIsThere'
    BY <1>1 DEF CallbackIsThere
  <1>2. CASE Insert
    <2>1. \A name \in Names :
             m_cb_map[name] /= NoCallback => m_cb_map'[name] /= NoCallback
      BY <1>2, InsertAdds
    <2>2. UNCHANGED <<monitors, worker>> /\ monitors \subseteq Names
      BY <1>2 DEF Insert, monitorVars, TypeOK
    <2> QED BY <2>1, <2>2 DEF CallbackIsThere
  <1>3. CASE AddMonitorPVs
    <2>1. /\ stage = "monitor" /\ monitors' = monitors \cup NamesOf[set]
          /\ UNCHANGED <<m_cb_map, worker>>
      BY <1>3 DEF AddMonitorPVs, Goto, managerVars
    <2> QED BY <2>1 DEF CallbackIsThere, ConstructorInOrder
  <1>4. ASSUME NEW w \in Workers, NEW name, NEW position, Deliver(w, name, position)
        PROVE  CallbackIsThere'
    BY <1>4 DEF CallbackIsThere, Deliver, managerVars, TypeOK
  <1>5. ASSUME NEW w \in Workers, RunCallback(w)
        PROVE  CallbackIsThere'
    BY <1>5 DEF CallbackIsThere, RunCallback, UpdateFound, UpdateMissed, TypeOK
  <1>6. CASE DestroyMonitors
    BY <1>6 DEF CallbackIsThere, DestroyMonitors, Idle, managerVars
  <1>7. CASE DestroyManager
    BY <1>7 DEF CallbackIsThere, ConstructorInOrder, DestroyManager, Goto, monitorVars
  <1> QED
    BY <1>1, <1>2, <1>3, <1>4, <1>5, <1>6, <1>7
    DEF Next, Server, AskServer, Constructor, TellInitial, TellInitialValue, Announce,
        TellNumberOfInstructions, vars, managerVars, monitorVars

-----------------------------------------------------------------------------
(* The values on their way.                                                *)

\* No name is in two sets.
LEMMA SetsAreDisjoint ==
    ASSUME NEW r \in Sets, NEW s \in Sets, NEW name \in NamesOf[r],
           name \in NamesOf[s]
    PROVE  r = s
  BY NamesAreOfObjects

\* The values of a set are served together, and stay.
LEMMA ServedStep ==
    ASSUME TypeOK, ServedTogether, [Next]_vars
    PROVE  ServedTogether'
  <1>0. ServerTypeOK
    BY DEF TypeOK
  <1>1. ASSUME UNCHANGED shown
        PROVE  ServedTogether'
    BY <1>1 DEF ServedTogether, Served
  <1>2. ASSUME NEW s \in Sets, Serve(s)
        PROVE  ServedTogether'
    <2>1. ASSUME NEW name \in NamesOf[s]
          PROVE  shown'[name] /= <<>>
      <3>1. PICK object \in Objects : SetOf(object) = s /\ name = NameOf[object]
        BY NamesAreOfObjects
      <3>2. shown'[name] = <<Value(0, InitialValue(object))>>
        BY <1>2, <3>1, ServedInitialValue
      <3> QED BY <3>2, SingleIsSeq
    <2>2. ASSUME NEW r \in Sets, r /= s, NEW name \in NamesOf[r]
          PROVE  shown'[name] = shown[name]
      BY <1>2, <2>2, SetsAreDisjoint, NamesAreOfObjects, ServedInitialValue
    <2> QED BY <2>1, <2>2 DEF ServedTogether, Served
  <1>3. ASSUME NEW s \in Sets, Show(s)
        PROVE  ServedTogether'
    <2> DEFINE update == updates[s][1]
    <2>1. /\ update.name \in NamesOf[s] /\ update.name \in Names
          /\ shown'[update.name] = Append(shown[update.name],
                                          Value(update.serial, update.value))
          /\ \A name \in Names : name /= update.name => shown'[name] = shown[name]
      BY <1>0, <1>3, ShowTypes
    <2> HIDE DEF update
    <2>2. shown'[update.name] /= <<>>
      <3>1. IsSeq(shown[update.name])
        BY <1>0, <2>1 DEF ServerTypeOK
      <3> QED BY <2>1, <3>1, AppendedSeq
    <2>3. ASSUME NEW name \in NamesOf[s]
          PROVE  shown'[name] /= <<>>
      BY <1>3, <2>1, <2>2, NamesAreOfObjects DEF Show, Served
    <2>4. ASSUME NEW r \in Sets, r /= s, NEW name \in NamesOf[r]
          PROVE  shown'[name] = shown[name]
      BY <2>1, <2>4, SetsAreDisjoint, NamesAreOfObjects
    <2> QED BY <2>3, <2>4 DEF ServedTogether, Served
  <1>4. CASE Server
    BY <1>1, <1>2, <1>3, <1>4, ServerSteps DEF Server, Queued
  <1> QED
    BY <1>1, <1>4
    DEF Next, AskServer, Constructor, TellInitial, Insert, Announce, AddMonitorPVs,
        Deliver, RunCallback, DestroyMonitors, DestroyManager, vars, serverVars

\* Carries and ValuesCarryReports, with the history of the reports and the
\* values as parameters.
CarriesIn(history, name, serial, value) ==
    \E object \in Objects :
        /\ NameOf[object] = name
        /\ serial \in 0..Len(history[object])
        /\ Encodes(object, IF serial = 0 THEN InitialArgs(object)
                           ELSE history[object][serial], value)

ValuesIn(queues, values, history) ==
    /\ \A s \in Sets : \A i \in DOMAIN queues[s] :
          /\ queues[s][i].serial /= 0
          /\ CarriesIn(history, queues[s][i].name, queues[s][i].serial,
                       queues[s][i].value)
    /\ \A name \in Names : \A i \in DOMAIN values[name] :
          \E value \in Base64DecodeAnyValue(values[name][i].value) :
             CarriesIn(history, name, values[name][i].serial, value)

\* They are those of the model, before and after a step.
LEMMA ValuesByHistory ==
    /\ \A name, serial, value :
          Carries(name, serial, value) <=> CarriesIn(published, name, serial, value)
    /\ ValuesCarryReports <=> ValuesIn(updates, shown, published)
    /\ ValuesCarryReports' <=> ValuesIn(updates', shown', published')
  <1>1. \A object \in Objects : InfoOf[NameOf[object]] = InfoFor(object)
    BY NamesAreOfObjects
  <1>2. \A name, serial, value :
           Carries(name, serial, value) <=> CarriesIn(published, name, serial, value)
    BY <1>1 DEF Carries, CarriesIn, ArgsOf, Encodes
  <1>3. ValuesCarryReports <=> ValuesIn(updates, shown, published)
    BY <1>2 DEF ValuesCarryReports, ValuesIn
  <1>4. \A name, serial, value :
           Carries(name, serial, value)' <=> CarriesIn(published', name, serial, value)
    BY <1>1 DEF Carries, CarriesIn, ArgsOf, Encodes
  <1>5. ValuesCarryReports' <=> ValuesIn(updates', shown', published')
    BY <1>1 DEF ValuesCarryReports, ValuesIn, Carries, CarriesIn, ArgsOf, Encodes
  <1> QED BY <1>2, <1>3, <1>5

\* A value carries a report still when there are others.
LEMMA HistoryGrows ==
    ASSUME NEW h, NEW g,
           \A object \in Objects :
              /\ Len(h[object]) \in Nat /\ Len(g[object]) \in Nat
              /\ Len(h[object]) <= Len(g[object])
              /\ \A i \in 1..Len(h[object]) : g[object][i] = h[object][i],
           NEW name, NEW serial, NEW value, CarriesIn(h, name, serial, value)
    PROVE  CarriesIn(g, name, serial, value)
  <1>1. PICK object \in Objects :
           /\ NameOf[object] = name
           /\ serial \in 0..Len(h[object])
           /\ Encodes(object, IF serial = 0 THEN InitialArgs(object)
                              ELSE h[object][serial], value)
    BY DEF CarriesIn
  <1>2. serial \in 0..Len(g[object])
    BY <1>1
  <1>3. serial /= 0 => g[object][serial] = h[object][serial]
    BY <1>1
  <1> QED BY <1>1, <1>2, <1>3 DEF CarriesIn

\* The serials of what is queued and shown are those of reports.
LEMMA SerialsAreBounded ==
    ASSUME NEW queues, NEW values, NEW history, ValuesIn(queues, values, history),
           \A object \in Objects : Len(history[object]) \in Nat
    PROVE  /\ \A s \in Sets, object \in Objects : \A i \in DOMAIN queues[s] :
                 queues[s][i].name = NameOf[object] =>
                    queues[s][i].serial \in 1..Len(history[object])
           /\ \A object \in Objects : \A i \in DOMAIN values[NameOf[object]] :
                 values[NameOf[object]][i].serial \in 0..Len(history[object])
  <1>1. ASSUME NEW object \in Objects, NEW serial, NEW value,
               CarriesIn(history, NameOf[object], serial, value)
        PROVE  serial \in 0..Len(history[object])
    BY <1>1, NamesIdentify DEF CarriesIn
  <1>2. ASSUME NEW s \in Sets, NEW object \in Objects, NEW i \in DOMAIN queues[s],
               queues[s][i].name = NameOf[object]
        PROVE  queues[s][i].serial \in 1..Len(history[object])
    <2>1. /\ queues[s][i].serial /= 0
          /\ CarriesIn(history, NameOf[object], queues[s][i].serial, queues[s][i].value)
      BY <1>2 DEF ValuesIn
    <2>2. queues[s][i].serial \in 0..Len(history[object])
      BY <1>1, <2>1
    <2> QED BY <2>1, <2>2
  <1>3. ASSUME NEW object \in Objects, NEW i \in DOMAIN values[NameOf[object]]
        PROVE  values[NameOf[object]][i].serial \in 0..Len(history[object])
    BY <1>1, NamesAreOfObjects DEF ValuesIn
  <1> QED BY <1>2, <1>3

\* What a queued report does, element by element.
LEMMA QueuedElements ==
    ASSUME ServerTypeOK, NEW object \in Objects, NEW args, NEW value,
           Queued(object, args, value)
    PROVE  LET s == SetOf(object)
               n == Len(updates[s])
               k == Len(published[object])
           IN  /\ s \in Sets /\ n \in Nat /\ k \in Nat
               /\ DOMAIN updates[s] = 1..n
               /\ DOMAIN updates'[s] = 1..(n + 1)
               /\ \A i \in 1..n : updates'[s][i] = updates[s][i]
               /\ updates'[s][n + 1] =
                     [name |-> NameOf[object], value |-> value, serial |-> k + 1]
               /\ \A r \in Sets : r /= s => updates'[r] = updates[r]
               /\ Len(published'[object]) = k + 1
               /\ \A i \in 1..k : published'[object][i] = published[object][i]
               /\ published'[object][k + 1] = args
               /\ \A p \in Objects : p /= object => published'[p] = published[p]
               /\ shown' = shown
  <1> DEFINE s == SetOf(object)
             update == [name |-> NameOf[object], value |-> value,
                        serial |-> Len(published[object]) + 1]
  <1>1. s \in Sets
    BY SetsListObjects
  <1>2. /\ updates'[s] = Append(updates[s], update)
        /\ \A r \in Sets : r /= s => updates'[r] = updates[r]
        /\ published'[object] = Append(published[object], args)
        /\ \A p \in Objects : p /= object => published'[p] = published[p]
        /\ shown' = shown
    BY <1>1 DEF Queued, ServerTypeOK
  <1>3. IsSeq(updates[s]) /\ IsSeq(published[object])
    BY <1>1 DEF ServerTypeOK
  <1> HIDE DEF s, update
  <1>4. /\ Len(updates[s]) \in Nat /\ DOMAIN updates[s] = 1..Len(updates[s])
        /\ Len(published[object]) \in Nat
    BY <1>3, LengthOfSeq
  <1>5. /\ DOMAIN updates'[s] = 1..(Len(updates[s]) + 1)
        /\ \A i \in 1..Len(updates[s]) : updates'[s][i] = updates[s][i]
        /\ updates'[s][Len(updates[s]) + 1] = update
    BY <1>2, <1>3, AppendedSeq
  <1>6. /\ Len(published'[object]) = Len(published[object]) + 1
        /\ \A i \in 1..Len(published[object]) :
              published'[object][i] = published[object][i]
        /\ published'[object][Len(published[object]) + 1] = args
    BY <1>2, <1>3, AppendedSeq
  <1> QED BY <1>1, <1>2, <1>4, <1>5, <1>6 DEF s, update

\* What showing an update does, element by element.
LEMMA ShowElements ==
    ASSUME ServerTypeOK, NEW s \in Sets, Show(s)
    PROVE  LET update == updates[s][1]
               name == update.name
               n == Len(updates[s])
               m == Len(shown[name])
           IN  /\ name \in NamesOf[s] /\ name \in Names
               /\ n \in Nat /\ m \in Nat /\ 1 <= n
               /\ DOMAIN updates[s] = 1..n
               /\ DOMAIN updates'[s] = 1..(n - 1)
               /\ \A i \in 1..(n - 1) : updates'[s][i] = updates[s][i + 1]
               /\ \A r \in Sets : r /= s => updates'[r] = updates[r]
               /\ DOMAIN shown[name] = 1..m
               /\ DOMAIN shown'[name] = 1..(m + 1)
               /\ \A i \in 1..m : shown'[name][i] = shown[name][i]
               /\ shown'[name][m + 1] = Value(update.serial, update.value)
               /\ \A other \in Names : other /= name => shown'[other] = shown[other]
  <1> DEFINE update == updates[s][1]
  <1>1. /\ update.name \in NamesOf[s] /\ update.name \in Names
        /\ updates'[s] = Tail(updates[s])
        /\ updates[s] /= <<>> /\ IsSeq(updates[s])
        /\ \A r \in Sets : r /= s => updates'[r] = updates[r]
        /\ shown'[update.name] = Append(shown[update.name],
                                        Value(update.serial, update.value))
        /\ \A name \in Names : name /= update.name => shown'[name] = shown[name]
    BY ShowTypes
  <1> HIDE DEF update
  <1>2. IsSeq(shown[update.name])
    BY <1>1 DEF ServerTypeOK
  <1>3. /\ Len(updates[s]) \in Nat /\ DOMAIN updates[s] = 1..Len(updates[s])
        /\ Len(shown[update.name]) \in Nat
        /\ DOMAIN shown[update.name] = 1..Len(shown[update.name])
    BY <1>1, <1>2, LengthOfSeq
  <1>4. /\ Len(updates[s]) >= 1
        /\ DOMAIN updates'[s] = 1..(Len(updates[s]) - 1)
        /\ \A i \in 1..(Len(updates[s]) - 1) : updates'[s][i] = updates[s][i + 1]
    BY <1>1, TailOfSeq
  <1>5. /\ DOMAIN shown'[update.name] = 1..(Len(shown[update.name]) + 1)
        /\ \A i \in 1..Len(shown[update.name]) :
              shown'[update.name][i] = shown[update.name][i]
        /\ shown'[update.name][Len(shown[update.name]) + 1]
              = Value(update.serial, update.value)
    BY <1>1, <1>2, AppendedSeq
  <1>6. 1 <= Len(updates[s])
    BY <1>3, <1>4
  <1> QED BY <1>1, <1>3, <1>4, <1>5, <1>6 DEF update

\* Every value keeps the report it was made for.
LEMMA ValuesStep ==
    ASSUME TypeOK, ValuesCarryReports, [Next]_vars
    PROVE  ValuesCarryReports'
  <1>0. ServerTypeOK
    BY DEF TypeOK
  <1>1. ValuesIn(updates, shown, published)
    BY ValuesByHistory
  <1>2. ASSUME UNCHANGED <<updates, shown, published>>
        PROVE  ValuesCarryReports'
    BY <1>1, <1>2, ValuesByHistory
  <1>3. ASSUME NEW object \in Objects, NEW args, NEW value,
               Encodes(object, args, value), Queued(object, args, value)
        PROVE  ValuesCarryReports'
    <2> DEFINE s == SetOf(object)
               n == Len(updates[s])
               k == Len(published[object])
               g == published'
    <2>1. /\ s \in Sets /\ n \in Nat /\ k \in Nat
          /\ DOMAIN updates[s] = 1..n
          /\ DOMAIN updates'[s] = 1..(n + 1)
          /\ \A i \in 1..n : updates'[s][i] = updates[s][i]
          /\ updates'[s][n + 1] =
                [name |-> NameOf[object], value |-> value, serial |-> k + 1]
          /\ \A r \in Sets : r /= s => updates'[r] = updates[r]
          /\ Len(g[object]) = k + 1
          /\ \A i \in 1..k : g[object][i] = published[object][i]
          /\ g[object][k + 1] = args
          /\ \A p \in Objects : p /= object => g[p] = published[p]
          /\ shown' = shown
      BY <1>0, <1>3, QueuedElements
    <2> HIDE DEF s, n, k, g
    <2>2. \A p \in Objects :
             /\ Len(published[p]) \in Nat /\ Len(g[p]) \in Nat
             /\ Len(published[p]) <= Len(g[p])
             /\ \A i \in 1..Len(published[p]) : g[p][i] = published[p][i]
      <3>1. \A p \in Objects : Len(published[p]) \in Nat
        BY <1>0, LengthOfSeq DEF ServerTypeOK
      <3>2. k = Len(published[object])
        BY DEF k
      <3>3. ASSUME NEW p \in Objects, p = object
            PROVE  /\ Len(g[p]) \in Nat /\ Len(published[p]) <= Len(g[p])
                   /\ \A i \in 1..Len(published[p]) : g[p][i] = published[p][i]
        BY <2>1, <3>2, <3>3
      <3>4. ASSUME NEW p \in Objects, p /= object
            PROVE  /\ Len(g[p]) \in Nat /\ Len(published[p]) <= Len(g[p])
                   /\ \A i \in 1..Len(published[p]) : g[p][i] = published[p][i]
        <4>1. g[p] = published[p] /\ Len(published[p]) \in Nat
          BY <2>1, <3>1, <3>4
        <4> QED BY <4>1
      <3> QED BY <3>1, <3>3, <3>4
    <2>3. \A name, serial, v :
             CarriesIn(published, name, serial, v) => CarriesIn(g, name, serial, v)
      <3>1. ASSUME NEW name, NEW serial, NEW v, CarriesIn(published, name, serial, v)
            PROVE  CarriesIn(g, name, serial, v)
        <4> DEFINE h == published
        <4>1. /\ CarriesIn(h, name, serial, v)
              /\ \A p \in Objects :
                    /\ Len(h[p]) \in Nat /\ Len(g[p]) \in Nat
                    /\ Len(h[p]) <= Len(g[p])
                    /\ \A i \in 1..Len(h[p]) : g[p][i] = h[p][i]
          BY <2>2, <3>1
        <4> HIDE DEF h
        <4> QED BY <4>1, HistoryGrows
      <3> QED BY <3>1
    <2>4. CarriesIn(g, NameOf[object], k + 1, value)
      <3>1. k + 1 \in 0..Len(g[object]) /\ k + 1 /= 0
        BY <2>1
      <3>2. Encodes(object, IF k + 1 = 0 THEN InitialArgs(object)
                           ELSE g[object][k + 1], value)
        BY <1>3, <2>1, <3>1
      <3> QED BY <3>1, <3>2 DEF CarriesIn
    <2>5. ASSUME NEW r \in Sets, NEW i \in DOMAIN updates'[r]
          PROVE  /\ updates'[r][i].serial /= 0
                 /\ CarriesIn(g, updates'[r][i].name, updates'[r][i].serial,
                              updates'[r][i].value)
      <3>1. CASE r = s /\ i = n + 1
        BY <2>1, <2>4, <3>1
      <3>2. CASE ~ (r = s /\ i = n + 1)
        <4>1. i \in DOMAIN updates[r] /\ updates'[r][i] = updates[r][i]
          BY <2>1, <3>2
        <4> QED BY <1>1, <2>3, <4>1 DEF ValuesIn
      <3> QED BY <3>1, <3>2
    <2>6. ValuesIn(updates', shown', g)
      BY <1>1, <2>1, <2>3, <2>5 DEF ValuesIn
    <2> QED BY <2>6, ValuesByHistory DEF g
  <1>4. ASSUME NEW s \in Sets, Serve(s)
        PROVE  ValuesCarryReports'
    <2>1. UNCHANGED <<updates, published>>
      BY <1>4 DEF Serve
    <2>2. ASSUME NEW name \in Names, NEW i \in DOMAIN shown'[name]
          PROVE  \E value \in Base64DecodeAnyValue(shown'[name][i].value) :
                    CarriesIn(published, name, shown'[name][i].serial, value)
      <3>1. CASE name \in NamesOf[s]
        <4>1. PICK object \in Objects : SetOf(object) = s /\ name = NameOf[object]
          BY <3>1, NamesAreOfObjects
        <4> DEFINE first == Value(0, InitialValue(object))
        <4>2. shown'[name] = <<first>>
          BY <1>4, <4>1, ServedInitialValue
        <4>3. i = 1 /\ shown'[name][i] = first
          <5> HIDE DEF first
          <5> QED BY <4>2, SingleIsSeq
        <4>4. /\ first.serial = 0
              /\ InitialValue(object) \in Base64DecodeAnyValue(first.value)
          BY CodecIsUndone DEF Value
        <4>5. CarriesIn(published, name, 0, InitialValue(object))
          <5>1. 0 \in 0..Len(published[object])
            BY <1>0, LengthOfSeq DEF ServerTypeOK
          <5>2. Encodes(object, InitialArgs(object), InitialValue(object))
            BY InitialValuesAreDecoded
          <5> QED BY <4>1, <5>1, <5>2 DEF CarriesIn
        <4> HIDE DEF first
        <4> QED BY <4>3, <4>4, <4>5
      <3>2. CASE name \notin NamesOf[s]
        BY <1>1, <1>4, <3>2, ServedInitialValue DEF ValuesIn
      <3> QED BY <3>1, <3>2
    <2>3. ValuesIn(updates', shown', published')
      BY <1>1, <2>1, <2>2 DEF ValuesIn
    <2> QED BY <2>3, ValuesByHistory
  <1>5. ASSUME NEW s \in Sets, Show(s)
        PROVE  ValuesCarryReports'
    <2> DEFINE update == updates[s][1]
               name == update.name
               n == Len(updates[s])
               m == Len(shown[name])
    <2>1. /\ name \in NamesOf[s] /\ name \in Names
          /\ n \in Nat /\ m \in Nat /\ 1 <= n
          /\ DOMAIN updates[s] = 1..n
          /\ DOMAIN updates'[s] = 1..(n - 1)
          /\ \A i \in 1..(n - 1) : updates'[s][i] = updates[s][i + 1]
          /\ \A r \in Sets : r /= s => updates'[r] = updates[r]
          /\ DOMAIN shown[name] = 1..m
          /\ DOMAIN shown'[name] = 1..(m + 1)
          /\ \A i \in 1..m : shown'[name][i] = shown[name][i]
          /\ shown'[name][m + 1] = Value(update.serial, update.value)
          /\ \A other \in Names : other /= name => shown'[other] = shown[other]
      BY <1>0, <1>5, ShowElements
    <2>2. published' = published
      BY <1>5 DEF Show
    <2>3. CarriesIn(published, name, update.serial, update.value)
      BY <1>1, <2>1 DEF ValuesIn
    <2> HIDE DEF name, n, m, update
    <2>4. ASSUME NEW other \in Names, NEW i \in DOMAIN shown'[other]
          PROVE  \E value \in Base64DecodeAnyValue(shown'[other][i].value) :
                    CarriesIn(published, other, shown'[other][i].serial, value)
      <3>1. CASE other = name /\ i = m + 1
        <4>1. /\ shown'[other][i].serial = update.serial
              /\ update.value \in Base64DecodeAnyValue(shown'[other][i].value)
          BY <2>1, <3>1, CodecIsUndone DEF Value
        <4> QED BY <2>3, <3>1, <4>1
      <3>2. CASE ~ (other = name /\ i = m + 1)
        <4>1. i \in DOMAIN shown[other] /\ shown'[other][i] = shown[other][i]
          BY <2>1, <3>2
        <4> QED BY <1>1, <4>1 DEF ValuesIn
      <3> QED BY <3>1, <3>2
    <2>5. ASSUME NEW r \in Sets, NEW i \in DOMAIN updates'[r]
          PROVE  \E j \in DOMAIN updates[r] : updates'[r][i] = updates[r][j]
      <3>1. CASE r = s
        <4>1. i + 1 \in 1..n /\ i \in 1..(n - 1)
          BY <2>1, <3>1
        <4> QED BY <2>1, <3>1, <4>1
      <3>2. CASE r /= s
        BY <2>1, <3>2
      <3> QED BY <3>1, <3>2
    <2>6. ValuesIn(updates', shown', published')
      <3>1. ASSUME NEW r \in Sets, NEW i \in DOMAIN updates'[r]
            PROVE  /\ updates'[r][i].serial /= 0
                   /\ CarriesIn(published, updates'[r][i].name,
                                updates'[r][i].serial, updates'[r][i].value)
        BY <1>1, <2>5 DEF ValuesIn
      <3> QED BY <2>2, <2>4, <3>1 DEF ValuesIn
    <2> QED BY <2>6, ValuesByHistory
  <1>6. CASE Server
    <2>1. ServerNext
      BY <1>6 DEF Server
    <2> QED BY <1>2, <1>3, <1>4, <1>5, <2>1, ServerSteps
  <1> QED
    BY <1>2, <1>6
    DEF Next, AskServer, Constructor, TellInitial, Insert, Announce, AddMonitorPVs,
        Deliver, RunCallback, DestroyMonitors, DestroyManager, vars, serverVars

\* Serials increase along the queues and in what is shown.
LEMMA SerialsStep ==
    ASSUME TypeOK, ValuesCarryReports, SerialsIncrease, [Next]_vars
    PROVE  SerialsIncrease'
  <1>0. ServerTypeOK
    BY DEF TypeOK
  <1>1. /\ \A s \in Sets, object \in Objects : \A i \in DOMAIN updates[s] :
              updates[s][i].name = NameOf[object] =>
                 updates[s][i].serial \in 1..Len(published[object])
        /\ \A object \in Objects : \A i \in DOMAIN shown[NameOf[object]] :
              shown[NameOf[object]][i].serial \in 0..Len(published[object])
    <2>1. \A object \in Objects : Len(published[object]) \in Nat
      BY <1>0, LengthOfSeq DEF ServerTypeOK
    <2>2. ValuesIn(updates, shown, published)
      BY ValuesByHistory
    <2> DEFINE queues == updates
               values == shown
               history == published
    <2>3. /\ ValuesIn(queues, values, history)
          /\ \A object \in Objects : Len(history[object]) \in Nat
      BY <2>1, <2>2
    <2> HIDE DEF queues, values, history
    <2>4. /\ \A s \in Sets, object \in Objects : \A i \in DOMAIN queues[s] :
                queues[s][i].name = NameOf[object] =>
                   queues[s][i].serial \in 1..Len(history[object])
          /\ \A object \in Objects : \A i \in DOMAIN values[NameOf[object]] :
                values[NameOf[object]][i].serial \in 0..Len(history[object])
      BY <2>3, SerialsAreBounded
    <2> QED BY <2>4 DEF queues, values, history
  <1>2. /\ \A name \in Names : \A i, j \in DOMAIN shown[name] :
              i < j => shown[name][i].serial < shown[name][j].serial
        /\ \A s \in Sets : \A i, j \in DOMAIN updates[s] :
              i < j /\ updates[s][i].name = updates[s][j].name
                 => updates[s][i].serial < updates[s][j].serial
        /\ \A s \in Sets : \A j \in DOMAIN updates[s] :
              \A i \in DOMAIN shown[updates[s][j].name] :
                 shown[updates[s][j].name][i].serial < updates[s][j].serial
    BY DEF SerialsIncrease
  <1>3. ASSUME UNCHANGED <<updates, shown>>
        PROVE  SerialsIncrease'
    BY <1>2, <1>3 DEF SerialsIncrease
  <1>4. \A s \in Sets : \A i \in DOMAIN updates[s] : updates[s][i].name \in NamesOf[s]
    BY <1>0 DEF ServerTypeOK
  <1>5. ASSUME NEW object \in Objects, NEW args, NEW value, Queued(object, args, value)
        PROVE  SerialsIncrease'
    <2> DEFINE s == SetOf(object)
               n == Len(updates[s])
               k == Len(published[object])
    <2>1. /\ s \in Sets /\ n \in Nat /\ k \in Nat
          /\ DOMAIN updates[s] = 1..n
          /\ DOMAIN updates'[s] = 1..(n + 1)
          /\ \A i \in 1..n : updates'[s][i] = updates[s][i]
          /\ updates'[s][n + 1] =
                [name |-> NameOf[object], value |-> value, serial |-> k + 1]
          /\ \A r \in Sets : r /= s => updates'[r] = updates[r]
          /\ shown' = shown
      BY <1>0, <1>5, QueuedElements
    <2>2. updates'[s][n + 1].name = NameOf[object] /\ updates'[s][n + 1].serial = k + 1
      BY <2>1
    <2>3. /\ \A i \in 1..n : updates[s][i].name = NameOf[object] =>
                updates[s][i].serial \in 1..k
          /\ \A i \in DOMAIN shown[NameOf[object]] :
                shown[NameOf[object]][i].serial \in 0..k
      BY <1>1, <2>1
    <2> HIDE DEF s, n, k
    <2>4. ASSUME NEW r \in Sets, NEW i \in DOMAIN updates'[r],
                 NEW j \in DOMAIN updates'[r],
                 i < j, updates'[r][i].name = updates'[r][j].name
          PROVE  updates'[r][i].serial < updates'[r][j].serial
      <3>1. CASE r = s /\ j = n + 1
        <4>1. i \in 1..n
          BY <2>1, <2>4, <3>1
        <4>2. updates'[s][i] = updates[s][i] /\ updates[s][i].name = NameOf[object]
          BY <2>1, <2>2, <2>4, <3>1, <4>1
        <4>3. updates[s][i].serial \in 1..k
          BY <2>3, <4>1, <4>2
        <4> QED BY <2>1, <2>2, <3>1, <4>2, <4>3
      <3>2. CASE ~ (r = s /\ j = n + 1)
        <4>1. /\ i \in DOMAIN updates[r] /\ updates'[r][i] = updates[r][i]
              /\ j \in DOMAIN updates[r] /\ updates'[r][j] = updates[r][j]
          BY <2>1, <2>4, <3>2
        <4> QED BY <1>2, <2>4, <4>1
      <3> QED BY <3>1, <3>2
    <2>5. ASSUME NEW r \in Sets, NEW j \in DOMAIN updates'[r],
                 NEW i \in DOMAIN shown[updates'[r][j].name]
          PROVE  shown[updates'[r][j].name][i].serial < updates'[r][j].serial
      <3>1. CASE r = s /\ j = n + 1
        <4>1. updates'[r][j].name = NameOf[object] /\ updates'[r][j].serial = k + 1
          BY <2>2, <3>1
        <4>2. shown[NameOf[object]][i].serial \in 0..k
          BY <2>3, <4>1
        <4> QED BY <2>1, <4>1, <4>2
      <3>2. CASE ~ (r = s /\ j = n + 1)
        <4>1. j \in DOMAIN updates[r] /\ updates'[r][j] = updates[r][j]
          <5>1. CASE r = s
            <6>1. j \in 1..n
              BY <2>1, <3>2, <5>1
            <6> QED BY <2>1, <5>1, <6>1
          <5>2. CASE r /= s
            BY <2>1, <5>2
          <5> QED BY <5>1, <5>2
        <4> QED BY <1>2, <4>1
      <3> QED BY <3>1, <3>2
    <2> QED BY <1>2, <2>1, <2>4, <2>5 DEF SerialsIncrease
  <1>6. ASSUME NEW s \in Sets, Serve(s)
        PROVE  SerialsIncrease'
    <2>1. updates' = updates
      BY <1>6 DEF Serve
    <2>2. ASSUME NEW name \in NamesOf[s]
          PROVE  DOMAIN shown'[name] = {1} /\ shown'[name][1].serial = 0
      <3>1. PICK object \in Objects : SetOf(object) = s /\ name = NameOf[object]
        BY NamesAreOfObjects
      <3> DEFINE first == Value(0, InitialValue(object))
      <3>2. shown'[name] = <<first>> /\ first.serial = 0
        BY <1>6, <3>1, ServedInitialValue DEF Value
      <3> HIDE DEF first
      <3> QED BY <3>2, SingleIsSeq
    <2>3. \A name \in Names \ NamesOf[s] : shown'[name] = shown[name]
      BY <1>6, ServedInitialValue
    <2>4. ASSUME NEW name \in Names, NEW i \in DOMAIN shown'[name],
                 NEW j \in DOMAIN shown'[name], i < j
          PROVE  shown'[name][i].serial < shown'[name][j].serial
      <3>1. CASE name \in NamesOf[s]
        <4>1. i = 1 /\ j = 1
          BY <2>2, <3>1
        <4> QED BY <2>4, <4>1
      <3>2. CASE name \notin NamesOf[s]
        BY <1>2, <2>3, <2>4, <3>2
      <3> QED BY <3>1, <3>2
    <2>5. ASSUME NEW r \in Sets, NEW j \in DOMAIN updates[r],
                 NEW i \in DOMAIN shown'[updates[r][j].name]
          PROVE  shown'[updates[r][j].name][i].serial < updates[r][j].serial
      <3>1. updates[r][j].name \in Names
        BY <1>4, NamesAreOfObjects
      <3>2. CASE updates[r][j].name \in NamesOf[s]
        <4>1. PICK object \in Objects : updates[r][j].name = NameOf[object]
          BY <3>1, NamesAreOfObjects
        <4>2. updates[r][j].serial \in 1..Len(published[object])
          BY <1>1, <4>1
        <4>3. shown'[updates[r][j].name][i].serial = 0
          BY <2>2, <3>2
        <4> QED BY <4>2, <4>3
      <3>3. CASE updates[r][j].name \notin NamesOf[s]
        BY <1>2, <2>3, <3>1, <3>3
      <3> QED BY <3>2, <3>3
    <2> QED BY <1>2, <2>1, <2>4, <2>5 DEF SerialsIncrease
  <1>7. ASSUME NEW s \in Sets, Show(s)
        PROVE  SerialsIncrease'
    <2> DEFINE update == updates[s][1]
               name == update.name
               n == Len(updates[s])
               m == Len(shown[name])
    <2>1. /\ name \in NamesOf[s] /\ name \in Names
          /\ n \in Nat /\ m \in Nat /\ 1 <= n
          /\ DOMAIN updates[s] = 1..n
          /\ DOMAIN updates'[s] = 1..(n - 1)
          /\ \A i \in 1..(n - 1) : updates'[s][i] = updates[s][i + 1]
          /\ \A r \in Sets : r /= s => updates'[r] = updates[r]
          /\ DOMAIN shown[name] = 1..m
          /\ DOMAIN shown'[name] = 1..(m + 1)
          /\ \A i \in 1..m : shown'[name][i] = shown[name][i]
          /\ shown'[name][m + 1] = Value(update.serial, update.value)
          /\ \A other \in Names : other /= name => shown'[other] = shown[other]
      BY <1>0, <1>7, ShowElements
    <2>2. shown'[name][m + 1].serial = update.serial
      BY <2>1 DEF Value
    <2>3. update = updates[s][1] /\ update.name = name
      OBVIOUS
    <2> HIDE DEF name, n, m, update
    <2>4. 1 \in DOMAIN updates[s]
      BY <2>1
    <2>5. ASSUME NEW other \in Names, NEW i \in DOMAIN shown'[other],
                 NEW j \in DOMAIN shown'[other], i < j
          PROVE  shown'[other][i].serial < shown'[other][j].serial
      <3>1. CASE other = name /\ j = m + 1
        <4>1. i \in 1..m /\ i \in DOMAIN shown[name]
          BY <2>1, <2>5, <3>1
        <4>2. shown[name][i].serial < update.serial
          BY <1>2, <2>3, <2>4, <4>1
        <4> QED BY <2>1, <2>2, <3>1, <4>1, <4>2
      <3>2. CASE ~ (other = name /\ j = m + 1)
        <4>1. /\ i \in DOMAIN shown[other] /\ shown'[other][i] = shown[other][i]
              /\ j \in DOMAIN shown[other] /\ shown'[other][j] = shown[other][j]
          BY <2>1, <2>5, <3>2
        <4> QED BY <1>2, <2>5, <4>1
      <3> QED BY <3>1, <3>2
    <2>6. ASSUME NEW i \in DOMAIN updates'[s]
          PROVE  /\ i + 1 \in DOMAIN updates[s] /\ 1 < i + 1 /\ i \in Int
                 /\ updates'[s][i] = updates[s][i + 1]
      BY <2>1
    <2>7. ASSUME NEW r \in Sets, NEW i \in DOMAIN updates'[r],
                 NEW j \in DOMAIN updates'[r],
                 i < j, updates'[r][i].name = updates'[r][j].name
          PROVE  updates'[r][i].serial < updates'[r][j].serial
      <3>1. CASE r = s
        <4>1. i + 1 < j + 1
          BY <2>6, <2>7, <3>1
        <4> QED BY <1>2, <2>6, <2>7, <3>1, <4>1
      <3>2. CASE r /= s
        BY <1>2, <2>1, <2>7, <3>2
      <3> QED BY <3>1, <3>2
    <2>8. ASSUME NEW r \in Sets, NEW j \in DOMAIN updates'[r],
                 NEW i \in DOMAIN shown'[updates'[r][j].name]
          PROVE  shown'[updates'[r][j].name][i].serial < updates'[r][j].serial
      <3>1. PICK l \in DOMAIN updates[r] :
               updates'[r][j] = updates[r][l] /\ (r = s => 1 < l)
        BY <2>1, <2>6
      <3>2. updates[r][l].name \in NamesOf[r] /\ updates[r][l].name \in Names
        BY <1>4, NamesAreOfObjects
      <3>3. CASE updates[r][l].name = name
        <4>1. r = s
          BY <2>1, <3>2, <3>3, SetsAreDisjoint
        <4>2. CASE i = m + 1
          <5>1. update.serial < updates[s][l].serial
            BY <1>2, <2>3, <2>4, <3>1, <3>3, <4>1
          <5> QED BY <2>2, <3>1, <3>3, <4>1, <4>2, <5>1
        <4>3. CASE i /= m + 1
          <5>1. i \in DOMAIN shown[name] /\ shown'[name][i] = shown[name][i]
            BY <2>1, <3>1, <3>3, <4>3
          <5>2. shown[name][i].serial < updates[r][l].serial
            BY <1>2, <3>3, <5>1
          <5> QED BY <3>1, <3>3, <5>1, <5>2
        <4> QED BY <4>2, <4>3
      <3>4. CASE updates[r][l].name /= name
        <4>1. shown'[updates[r][l].name] = shown[updates[r][l].name]
          BY <2>1, <3>2, <3>4
        <4> QED BY <1>2, <3>1, <4>1
      <3> QED BY <3>3, <3>4
    <2> QED BY <2>5, <2>7, <2>8 DEF SerialsIncrease
  <1>8. CASE Server
    <2>1. ServerNext
      BY <1>8 DEF Server
    <2> QED BY <1>3, <1>5, <1>6, <1>7, <2>1, ServerSteps
  <1> QED
    BY <1>3, <1>8
    DEF Next, AskServer, Constructor, TellInitial, Insert, Announce, AddMonitorPVs,
        Deliver, RunCallback, DestroyMonitors, DestroyManager, vars, serverVars

-----------------------------------------------------------------------------
(* What monitors deliver.                                                  *)

\* What clients could see of a name is still there.
LEMMA ShownGrows ==
    ASSUME TypeOK, ServedTogether, [Next]_vars, NEW name \in Names
    PROVE  \A i \in DOMAIN shown[name] :
              i \in DOMAIN shown'[name] /\ shown'[name][i] = shown[name][i]
  <1> DEFINE Goal == \A i \in DOMAIN shown[name] :
                        i \in DOMAIN shown'[name] /\ shown'[name][i] = shown[name][i]
  <1> HIDE DEF Goal
  <1>0. ServerTypeOK
    BY DEF TypeOK
  <1>1. ASSUME UNCHANGED shown PROVE Goal
    BY <1>1 DEF Goal
  <1>2. ASSUME NEW s \in Sets, Serve(s) PROVE Goal
    <2>1. CASE name \in NamesOf[s]
      <3>1. shown[name] = <<>>
        BY <1>2, <2>1 DEF ServedTogether, Serve
      <3> QED BY <3>1, EmptyIsSeq DEF Goal
    <2>2. CASE name \notin NamesOf[s]
      BY <1>2, <2>2, ServedInitialValue DEF Goal
    <2> QED BY <2>1, <2>2
  <1>3. ASSUME NEW s \in Sets, Show(s) PROVE Goal
    <2> DEFINE update == updates[s][1]
               m == Len(shown[update.name])
    <2>1. /\ m \in Nat
          /\ DOMAIN shown[update.name] = 1..m
          /\ DOMAIN shown'[update.name] = 1..(m + 1)
          /\ \A i \in 1..m : shown'[update.name][i] = shown[update.name][i]
          /\ \A other \in Names : other /= update.name => shown'[other] = shown[other]
      BY <1>0, <1>3, ShowElements
    <2> HIDE DEF update, m
    <2> QED BY <2>1 DEF Goal
  <1>4. ASSUME Server PROVE Goal
    <2>1. ServerNext
      BY <1>4 DEF Server
    <2> QED BY <1>1, <1>2, <1>3, <2>1, ServerSteps DEF Queued
  <1>5. Goal
    BY <1>1, <1>4
    DEF Next, AskServer, Constructor, TellInitial, Insert, Announce, AddMonitorPVs,
        Deliver, RunCallback, DestroyMonitors, DestroyManager, vars, serverVars
  <1> QED BY <1>5 DEF Goal

\* The steps of the monitors: a value is delivered, or a callback returns.
LEMMA MonitorSteps ==
    ASSUME [Next]_vars
    PROVE  \/ UNCHANGED <<seen, worker>>
           \/ \E w \in Workers, name \in Names : \E position \in 1..Len(shown[name]) :
                 Deliver(w, name, position)
           \/ \E w \in Workers :
                 /\ UNCHANGED seen
                 /\ worker' = [worker EXCEPT ![w] = NoUpdate]
  BY DEF Next, Server, AskServer, Constructor, TellInitial, Insert, Announce,
         AddMonitorPVs, RunCallback, DestroyMonitors, DestroyManager, vars,
         monitorVars

\* A callback keeps the last value of its name until it returns.
LEMMA SeenStep ==
    ASSUME TypeOK, ServedTogether, CallbackIsThere, DeliveredIsSeen, [Next]_vars
    PROVE  DeliveredIsSeen'
  <1>1. \A name \in Names : \A i : i \in DOMAIN shown[name] =>
           i \in DOMAIN shown'[name] /\ shown'[name][i] = shown[name][i]
    BY ShownGrows
  <1>2. \A w \in Workers : worker[w] /= NoUpdate => worker[w].name \in Names
    BY DEF TypeOK, CallbackIsThere
  <1>3. /\ \A name \in Names : seen[name] = 1 \/ seen[name] \in DOMAIN shown[name]
        /\ \A w \in Workers : worker[w] /= NoUpdate =>
              /\ seen[worker[w].name] \in DOMAIN shown[worker[w].name]
              /\ worker[w].update = shown[worker[w].name][seen[worker[w].name]]
        /\ \A v, w \in Workers :
              /\ worker[v] /= NoUpdate /\ worker[w] /= NoUpdate
              /\ worker[v].name = worker[w].name
              => v = w
    BY DEF DeliveredIsSeen
  <1>4. ASSUME NEW W \in SUBSET Workers, UNCHANGED seen,
               \A w \in Workers : worker'[w] = IF w \in W THEN NoUpdate ELSE worker[w]
        PROVE  DeliveredIsSeen'
    BY <1>1, <1>2, <1>3, <1>4 DEF DeliveredIsSeen
  <1>5. CASE UNCHANGED <<seen, worker>>
    <2>1. {} \in SUBSET Workers /\ \A w \in Workers : w \notin {}
      OBVIOUS
    <2> QED BY <1>4, <1>5, <2>1
  <1>6. ASSUME NEW w \in Workers, UNCHANGED seen,
               worker' = [worker EXCEPT ![w] = NoUpdate]
        PROVE  DeliveredIsSeen'
    <2>1. DOMAIN worker = Workers /\ {w} \in SUBSET Workers
      BY DEF TypeOK
    <2>2. \A v \in Workers : worker'[v] = IF v \in {w} THEN NoUpdate ELSE worker[v]
      BY <1>6, <2>1
    <2> QED BY <1>4, <1>6, <2>1, <2>2
  <1>7. ASSUME NEW w \in Workers, NEW name \in Names,
               NEW position \in 1..Len(shown[name]), Deliver(w, name, position)
        PROVE  DeliveredIsSeen'
    <2>1. /\ worker[w] = NoUpdate
          /\ \A v \in Workers : worker[v] /= NoUpdate => worker[v].name /= name
          /\ seen' = [seen EXCEPT ![name] = position]
          /\ worker' = [worker EXCEPT ![w] =
                [name |-> name, update |-> shown[name][position]]]
          /\ UNCHANGED shown
      BY <1>7 DEF Deliver, Idle, serverVars
    <2>2. position \in DOMAIN shown[name]
      BY LengthOfSeq DEF TypeOK, ServerTypeOK
    <2>3. DOMAIN worker = Workers /\ DOMAIN seen = Names
      BY DEF TypeOK
    <2>4. /\ seen'[name] = position
          /\ \A other \in Names : other /= name => seen'[other] = seen[other]
      BY <2>1, <2>3
    <2>5. /\ worker'[w].name = name /\ worker'[w].update = shown[name][position]
          /\ \A v \in Workers : v /= w => worker'[v] = worker[v]
      BY <2>1, <2>3
    <2>6. \A other \in Names : seen'[other] = 1 \/ seen'[other] \in DOMAIN shown[other]
      BY <1>3, <2>2, <2>4
    <2>7. ASSUME NEW v \in Workers, worker'[v] /= NoUpdate
          PROVE  /\ seen'[worker'[v].name] \in DOMAIN shown[worker'[v].name]
                 /\ worker'[v].update = shown[worker'[v].name][seen'[worker'[v].name]]
      <3>1. CASE v = w
        BY <2>2, <2>4, <2>5, <3>1
      <3>2. CASE v /= w
        <4>1. worker'[v] = worker[v] /\ worker[v].name /= name /\ worker[v].name \in Names
          BY <1>2, <2>1, <2>5, <2>7, <3>2
        <4>2. seen'[worker[v].name] = seen[worker[v].name]
          BY <2>4, <4>1
        <4> QED BY <1>3, <2>7, <4>1, <4>2
      <3> QED BY <3>1, <3>2
    <2>8. ASSUME NEW u \in Workers, NEW v \in Workers,
                 worker'[u] /= NoUpdate, worker'[v] /= NoUpdate,
                 worker'[u].name = worker'[v].name
          PROVE  u = v
      BY <1>3, <2>1, <2>5, <2>8
    <2> QED BY <2>1, <2>6, <2>7, <2>8 DEF DeliveredIsSeen
  <1> QED BY <1>5, <1>6, <1>7, MonitorSteps

\* The last value delivered of a name is never one with an older report.
LEMMA SeenAdvances ==
    ASSUME TypeOK, ServedTogether, ValuesCarryReports, SerialsIncrease, [Next]_vars,
           NEW name \in Names, seen[name] \in DOMAIN shown[name]
    PROVE  /\ seen'[name] \in DOMAIN shown'[name]
           /\ shown[name][seen[name]].serial \in Nat
           /\ shown'[name][seen'[name]].serial \in Nat
           /\ shown[name][seen[name]].serial <= shown'[name][seen'[name]].serial
  <1>1. \A i \in DOMAIN shown[name] :
           i \in DOMAIN shown'[name] /\ shown'[name][i] = shown[name][i]
    BY ShownGrows
  <1>2. \A i \in DOMAIN shown[name] : shown[name][i].serial \in Nat
    <2>1. PICK object \in Objects : name = NameOf[object]
      BY NamesAreOfObjects
    <2>2. \A p \in Objects : Len(published[p]) \in Nat
      BY LengthOfSeq DEF TypeOK, ServerTypeOK
    <2>3. ValuesIn(updates, shown, published)
      BY ValuesByHistory
    <2> DEFINE queues == updates
               values == shown
               history == published
    <2>4. /\ ValuesIn(queues, values, history)
          /\ \A p \in Objects : Len(history[p]) \in Nat
      BY <2>2, <2>3
    <2> HIDE DEF queues, values, history
    <2>5. \A i \in DOMAIN values[NameOf[object]] :
             values[NameOf[object]][i].serial \in 0..Len(history[object])
      BY <2>4, SerialsAreBounded
    <2>6. \A i \in DOMAIN shown[name] : shown[name][i].serial \in 0..Len(published[object])
      BY <2>1, <2>5 DEF values, history
    <2> QED BY <2>2, <2>6
  <1>3. \E i \in DOMAIN shown[name] : seen'[name] = i /\ seen[name] <= i
    <2>1. seen \in [Names -> Nat]
      BY DEF TypeOK
    <2>2. ASSUME UNCHANGED seen
          PROVE  \E i \in DOMAIN shown[name] : seen'[name] = i /\ seen[name] <= i
      BY <2>1, <2>2
    <2>3. ASSUME NEW w \in Workers, NEW other \in Names,
                 NEW position \in 1..Len(shown[other]), Deliver(w, other, position)
          PROVE  \E i \in DOMAIN shown[name] : seen'[name] = i /\ seen[name] <= i
      <3>1. position \in DOMAIN shown[other]
        BY LengthOfSeq DEF TypeOK, ServerTypeOK
      <3>2. position >= seen[other] /\ seen' = [seen EXCEPT ![other] = position]
        BY <2>3 DEF Deliver
      <3>3. position \in Nat
        BY LengthOfSeq DEF TypeOK, ServerTypeOK
      <3>4. CASE name = other
        BY <2>1, <3>1, <3>2, <3>3, <3>4
      <3>5. CASE name /= other
        BY <2>1, <3>2, <3>5
      <3> QED BY <3>4, <3>5
    <2> QED BY <2>2, <2>3, MonitorSteps
  <1>4. PICK i \in DOMAIN shown[name] : seen'[name] = i /\ seen[name] <= i
    BY <1>3
  <1>5. shown[name][seen[name]].serial <= shown[name][i].serial
    <2>1. seen[name] \in Nat /\ i \in Nat
      <3>1. Len(shown[name]) \in Nat /\ DOMAIN shown[name] = 1..Len(shown[name])
        BY LengthOfSeq DEF TypeOK, ServerTypeOK
      <3> QED BY <1>4, <3>1
    <2>2. seen[name] < i => shown[name][seen[name]].serial < shown[name][i].serial
      BY <1>4 DEF SerialsIncrease
    <2> QED BY <1>2, <1>4, <2>1, <2>2
  <1> QED BY <1>1, <1>2, <1>4, <1>5

-----------------------------------------------------------------------------
(* What the listener is told.                                              *)

\* The listener is told of the report serial about the object.
Told(object, serial) ==
    told' = [told EXCEPT ![object] =
                {[serial |-> serial, args |-> ArgsOf(object, serial)]}]

\* A value leads to one call at most, with the arguments it carries.
LEMMA CarriedIsTold ==
    ASSUME NEW object \in Objects, NEW serial, NEW calls,
           \A call \in calls : call = [object |-> object, args |-> ArgsOf(object, serial)],
           Tell(serial, calls)
    PROVE  UNCHANGED told \/ Told(object, serial)
  BY DEF Tell, Told

\* The constructor tells the initial value of an object without a callback.
LEMMA InitialIsTold ==
    ASSUME TypeOK, TellInitial
    PROVE  \E object \in Objects :
              /\ m_cb_map[NameOf[object]] = NoCallback
              /\ UNCHANGED told \/ Told(object, 0)
  <1>1. PICK object \in Objects : Pair = PairOf(object)
    BY PairIsOfObject DEF TellInitial
  <1>2. Pair.name = NameOf[object] /\ Pair.value = InitialValue(object)
    BY <1>1 DEF PairOf, NameAnyValuePair
  <1>3. InfoOf[NameOf[object]] = InfoFor(object)
    BY NamesAreOfObjects
  <1>4. Tell(0, CreateCallback(InfoFor(object), InitialValue(object)))
    BY <1>2, <1>3 DEF TellInitial, TellInitialValue
  <1>5. \A call \in CreateCallback(InfoFor(object), InitialValue(object)) :
           call = [object |-> object, args |-> ArgsOf(object, 0)]
    BY InitialValuesAreDecoded DEF Encodes, ArgsOf
  <1>6. UNCHANGED told \/ Told(object, 0)
    BY <1>4, <1>5, CarriedIsTold
  <1>7. m_cb_map[NameOf[object]] = NoCallback
    BY <1>2 DEF TellInitial
  <1> QED BY <1>6, <1>7

\* As many values of the set are about instructions as the job has.
LEMMA InstructionsAreCounted ==
    ASSUME NEW s \in Sets
    PROVE  Cardinality({i \in DOMAIN ValueSet[s] :
                           InfoOf[ValueSet[s][i].name].val_type = "kInstruction"})
              = IF s = "instructions" THEN NInstr ELSE 0
  <1> DEFINE I == {i \in DOMAIN ValueSet[s] :
                      InfoOf[ValueSet[s][i].name].val_type = "kInstruction"}
  <1>1. DOMAIN ValueSet[s] = 1..Len(ValueSet[s])
    BY SetsListObjects
  <1>2. ASSUME NEW i \in 1..Len(ValueSet[s])
        PROVE  InfoOf[ValueSet[s][i].name].val_type = "kInstruction"
                  <=> s = "instructions"
    <2>1. PICK object \in Objects : SetOf(object) = s /\ ValueSet[s][i] = PairOf(object)
      BY SetsListObjects
    <2>2. InfoOf[ValueSet[s][i].name] = InfoFor(object)
      BY <2>1, NamesAreOfObjects DEF PairOf, NameAnyValuePair
    <2>3. InfoFor(object).val_type = "kInstruction"
             <=> object[1] = "InstructionStateUpdated"
      BY ObjectCases DEF InfoFor, ValueNameInfo
    <2> QED BY <2>1, <2>2, <2>3 DEF SetOf
  <1>3. CASE s = "instructions"
    <2>1. Len(ValueSet[s]) = NInstr
      BY <1>3, NumbersAssumption DEF ValueSet, Sets, GetInstructionValueSet
    <2>2. I = 1..NInstr
      BY <1>1, <1>2, <1>3, <2>1
    <2> HIDE DEF I
    <2>3. Cardinality(1..NInstr) = NInstr
      BY FS_Interval, NumbersAssumption
    <2> QED BY <1>3, <2>2, <2>3 DEF I
  <1>4. CASE s /= "instructions"
    <2>1. I = {}
      BY <1>1, <1>2, <1>4
    <2> HIDE DEF I
    <2> QED BY <1>4, <2>1, FS_EmptySet DEF I
  <1> QED BY <1>3, <1>4

\* The end of a set tells the number of instructions, or nothing.
LEMMA NumberIsTold ==
    ASSUME TypeOK, Announce
    PROVE  UNCHANGED told \/ Told(<<"InitNumberOfInstructions", 0>>, 0)
  <1> DEFINE n == Cardinality({i \in DOMAIN ValueSet[set] :
                     InfoOf[ValueSet[set][i].name].val_type = "kInstruction"})
             object == <<"InitNumberOfInstructions", 0>>
  <1>1. Tell(0, IF n > 0 THEN {ListenerCall("InitNumberOfInstructions", 0, <<n>>)}
                ELSE {})
    BY DEF Announce, TellNumberOfInstructions
  <1>2. n = IF set = "instructions" THEN NInstr ELSE 0
    BY InstructionsAreCounted DEF TypeOK
  <1> HIDE DEF n
  <1>3. n > 0 => n = NInstr
    BY <1>2
  <1>4. ArgsOf(object, 0) = <<NInstr>>
    BY DEF ArgsOf, InitialArgs
  <1>5. CASE n > 0
    BY <1>1, <1>3, <1>4, <1>5 DEF Tell, ListenerCall, Told
  <1>6. CASE ~ (n > 0)
    BY <1>1, <1>6 DEF Tell
  <1> QED BY <1>5, <1>6

\* A callback tells of the report its value carries, the last one delivered.
LEMMA DeliveredIsTold ==
    ASSUME TypeOK, CallbackIsThere, ValuesCarryReports, DeliveredIsSeen,
           NEW w \in Workers, RunCallback(w)
    PROVE  \/ UNCHANGED told
           \/ \E object \in Objects : \E serial :
                 /\ m_cb_map[NameOf[object]] /= NoCallback
                 /\ seen[NameOf[object]] \in DOMAIN shown[NameOf[object]]
                 /\ serial = shown[NameOf[object]][seen[NameOf[object]]].serial
                 /\ serial \in 0..Len(published[object])
                 /\ Told(object, serial)
  <1> DEFINE name == worker[w].name
             shownLast == shown[name][seen[name]]
  <1>1. /\ name \in Names
        /\ seen[name] \in DOMAIN shown[name]
        /\ worker[w].update = shownLast
    BY DEF RunCallback, CallbackIsThere, DeliveredIsSeen, TypeOK
  <1>2. PICK value \in Base64DecodeAnyValue(shownLast.value) :
           Carries(name, shownLast.serial, value)
    BY <1>1 DEF ValuesCarryReports
  <1>3. PICK object \in Objects :
           /\ NameOf[object] = name
           /\ shownLast.serial \in 0..Len(published[object])
           /\ \A call \in CreateCallback(InfoOf[name], value) :
                 call = [object |-> object, args |-> ArgsOf(object, shownLast.serial)]
    BY <1>2 DEF Carries
  <1>4. \A av \in Base64DecodeAnyValue(shownLast.value) : av = value
    BY <1>2 DEF Base64DecodeAnyValue
  <1> HIDE DEF name, shownLast
  <1>5. UNCHANGED told \/ UpdateFound(name, shownLast.serial, value)
    <2>1. PICK av \in Base64DecodeAnyValue(shownLast.value) :
             \/ UpdateFound(name, shownLast.serial, av)
             \/ UpdateMissed(name, shownLast.serial, stage = "insert")
      BY <1>1 DEF RunCallback, name
    <2>2. av = value
      BY <1>4
    <2> QED BY <2>1, <2>2 DEF UpdateMissed
  <1>6. ASSUME UpdateFound(name, shownLast.serial, value)
        PROVE  \/ UNCHANGED told
               \/ m_cb_map[name] /= NoCallback /\ Told(object, shownLast.serial)
    <2>1. m_cb_map[name] /= NoCallback
      BY <1>6 DEF UpdateFound
    <2>2. m_cb_map[name] = InfoOf[name]
      BY <1>1, <2>1 DEF TypeOK, ManagerTypeOK
    <2>3. Tell(shownLast.serial, CreateCallback(InfoOf[name], value))
      BY <1>6, <2>2 DEF UpdateFound
    <2> QED BY <1>3, <2>1, <2>3, CarriedIsTold
  <1>7. shownLast.serial = shown[NameOf[object]][seen[NameOf[object]]].serial
    BY <1>3 DEF shownLast, name
  <1> QED BY <1>1, <1>3, <1>5, <1>6, <1>7

\* Whatever the listener is told, it is before the monitors are destroyed: an
\* initial value of a name without a callback, or of the number of instructions,
\* or the last report delivered of a name with a callback.
LEMMA ToldSteps ==
    ASSUME TypeOK, CallbackIsThere, ValuesCarryReports, DeliveredIsSeen,
           ConstructorInOrder, [Next]_vars
    PROVE  \/ UNCHANGED told
           \/ /\ UNCHANGED serverVars
              /\ UNCHANGED <<m_cb_map, seen>>
              /\ stage \notin {"destroy", "destroyed"}
              /\ \/ Told(<<"InitNumberOfInstructions", 0>>, 0)
                 \/ \E object \in Objects :
                       m_cb_map[NameOf[object]] = NoCallback /\ Told(object, 0)
                 \/ \E object \in Objects : \E serial :
                       /\ m_cb_map[NameOf[object]] /= NoCallback
                       /\ seen[NameOf[object]] \in DOMAIN shown[NameOf[object]]
                       /\ serial = shown[NameOf[object]][seen[NameOf[object]]].serial
                       /\ serial \in 0..Len(published[object])
                       /\ Told(object, serial)
  <1>1. CASE TellInitial
    <2>1. /\ UNCHANGED serverVars /\ UNCHANGED <<m_cb_map, seen>>
          /\ stage = "tell"
      BY <1>1 DEF TellInitial, TellInitialValue, Goto, monitorVars
    <2> QED BY <1>1, <2>1, InitialIsTold
  <1>2. CASE Announce
    <2>1. /\ UNCHANGED serverVars /\ UNCHANGED <<m_cb_map, seen>>
          /\ stage = "tell"
      BY <1>2 DEF Announce, TellNumberOfInstructions, Goto, monitorVars
    <2> QED BY <1>2, <2>1, NumberIsTold
  <1>3. ASSUME NEW w \in Workers, RunCallback(w)
        PROVE  /\ UNCHANGED serverVars
               /\ UNCHANGED <<m_cb_map, seen>>
               /\ stage \notin {"destroy", "destroyed"}
    <2>1. UNCHANGED serverVars /\ UNCHANGED <<m_cb_map, seen>> /\ worker[w] /= NoUpdate
      BY <1>3 DEF RunCallback, UpdateFound, UpdateMissed
    <2>2. monitors /= {}
      BY <2>1 DEF CallbackIsThere
    <2> QED BY <2>1, <2>2 DEF ConstructorInOrder
  <1>4. UNCHANGED told \/ TellInitial \/ Announce \/ \E w \in Workers : RunCallback(w)
    BY DEF Next, Server, AskServer, Constructor, Insert, AddCallback, AddMonitorPVs,
           Deliver, DestroyMonitors, DestroyManager, vars, managerVars
  <1> QED BY <1>1, <1>2, <1>3, <1>4, DeliveredIsTold

\* A name that had a callback has one until the manager is destroyed.
LEMMA CallbacksStay ==
    ASSUME TypeOK, ConstructorInOrder, [Next]_vars, NEW name \in Names,
           m_cb_map[name] /= NoCallback \/ stage = "destroyed"
    PROVE  m_cb_map'[name] /= NoCallback \/ stage' = "destroyed"
  <1>1. CASE Insert
    <2>1. stage = "insert"
      BY <1>1 DEF Insert, Goto
    <2> QED BY <1>1, <2>1, InsertAdds
  <1>2. CASE DestroyManager
    BY <1>2 DEF DestroyManager, Goto
  <1>3. CASE AskServer \/ TellInitial \/ Announce \/ AddMonitorPVs \/ DestroyMonitors
    <2>1. stage /= "destroyed" /\ UNCHANGED m_cb_map
      BY <1>3
      DEF AskServer, TellInitial, TellInitialValue, Announce, TellNumberOfInstructions,
          AddMonitorPVs, DestroyMonitors, Goto, managerVars
    <2> QED BY <2>1
  <1>4. ASSUME UNCHANGED <<m_cb_map, stage>>
        PROVE  m_cb_map'[name] /= NoCallback \/ stage' = "destroyed"
    BY <1>4
  <1> QED
    BY <1>1, <1>2, <1>3, <1>4
    DEF Next, Server, Constructor, Deliver, RunCallback, UpdateFound, UpdateMissed,
        vars, managerVars, clientVars

\* A call replaces the one before it about the object.
LEMMA ToldReplaces ==
    ASSUME TypeOK, NEW object \in ListenerObjects, NEW serial, Told(object, serial)
    PROVE  /\ told'[object] = {[serial |-> serial, args |-> ArgsOf(object, serial)]}
           /\ \A other \in ListenerObjects : other /= object => told'[other] = told[other]
  BY DEF Told, TypeOK, ManagerTypeOK

\* The number of instructions is not an object of the server.
LEMMA ListenerObjectCases ==
    /\ Objects \subseteq ListenerObjects
    /\ <<"InitNumberOfInstructions", 0>> \in ListenerObjects
    /\ <<"InitNumberOfInstructions", 0>> \notin Objects
    /\ \A object \in ListenerObjects :
          object \in Objects \/ object = <<"InitNumberOfInstructions", 0>>
  BY ObjectCases DEF ListenerObjects

\* What the listener was told was delivered.
LEMMA ToldSeenStep ==
    ASSUME TypeOK, CallbackIsThere, ValuesCarryReports, SerialsIncrease,
           ServedTogether, DeliveredIsSeen, ConstructorInOrder, ToldIsSeen,
           [Next]_vars
    PROVE  ToldIsSeen'
  <1> DEFINE number == <<"InitNumberOfInstructions", 0>>
             Seen(object, call) ==
                /\ m_cb_map[NameOf[object]] /= NoCallback \/ stage = "destroyed"
                /\ seen[NameOf[object]] \in DOMAIN shown[NameOf[object]]
                /\ call.serial \in 1..shown[NameOf[object]][seen[NameOf[object]]].serial
  <1>1. /\ \A object \in Objects : \A call \in told[object] :
              call.serial /= 0 => Seen(object, call)
        /\ \A call \in told[number] : call.serial = 0
        /\ \A object \in ListenerObjects : \A c, d \in told[object] : c = d
    BY DEF ToldIsSeen
  <1>2. ASSUME NEW object \in Objects, NEW call, Seen(object, call)
        PROVE  Seen(object, call)'
    <2> DEFINE name == NameOf[object]
               m == shown[name][seen[name]].serial
               k == shown'[name][seen'[name]].serial
    <2>1. name \in Names
      BY NamesAreOfObjects
    <2>2. m_cb_map'[name] /= NoCallback \/ stage' = "destroyed"
      BY <1>2, <2>1, CallbacksStay
    <2>3. seen'[name] \in DOMAIN shown'[name] /\ m \in Nat /\ k \in Nat /\ m <= k
      BY <1>2, <2>1, SeenAdvances
    <2>4. call.serial \in 1..m
      BY <1>2
    <2> HIDE DEF m, k
    <2>5. call.serial \in 1..k
      BY <2>3, <2>4
    <2> QED BY <2>2, <2>3, <2>5 DEF k
  <1>3. ASSUME \A object \in Objects : \A call \in told'[object] :
                  call.serial /= 0 => Seen(object, call)',
               \A call \in told'[number] : call.serial = 0,
               \A object \in ListenerObjects : \A c, d \in told'[object] : c = d
        PROVE  ToldIsSeen'
    BY <1>3 DEF ToldIsSeen
  <1> HIDE DEF Seen
  <1>4. CASE UNCHANGED told
    BY <1>1, <1>2, <1>3, <1>4
  <1>5. ASSUME NEW o \in ListenerObjects, NEW serial, Told(o, serial),
               o = number => serial = 0,
               \A call : o \in Objects /\ serial /= 0 /\ call.serial = serial
                            => Seen(o, call)
        PROVE  ToldIsSeen'
    <2>1. /\ told'[o] = {[serial |-> serial, args |-> ArgsOf(o, serial)]}
          /\ \A other \in ListenerObjects : other /= o => told'[other] = told[other]
      BY <1>5, ToldReplaces
    <2>2. \A call \in told'[o] : call.serial = serial
      BY <2>1
    <2>3. ASSUME NEW object \in Objects, NEW call \in told'[object], call.serial /= 0
          PROVE  Seen(object, call)'
      <3>1. CASE object = o
        BY <1>2, <1>5, <2>2, <2>3, <3>1
      <3>2. CASE object /= o
        BY <1>1, <1>2, <2>1, <2>3, <3>2, ListenerObjectCases
      <3> QED BY <3>1, <3>2
    <2>4. \A call \in told'[number] : call.serial = 0
      BY <1>1, <1>5, <2>1, <2>2, ListenerObjectCases
    <2>5. \A object \in ListenerObjects : \A c, d \in told'[object] : c = d
      BY <1>1, <2>1
    <2> QED BY <1>3, <2>3, <2>4, <2>5
  <1>6. CASE Told(number, 0)
    BY <1>5, <1>6, ListenerObjectCases
  <1>7. ASSUME NEW object \in Objects, Told(object, 0)
        PROVE  ToldIsSeen'
    BY <1>5, <1>7, ListenerObjectCases
  <1>8. ASSUME NEW object \in Objects, NEW serial,
               m_cb_map[NameOf[object]] /= NoCallback,
               seen[NameOf[object]] \in DOMAIN shown[NameOf[object]],
               serial = shown[NameOf[object]][seen[NameOf[object]]].serial,
               serial \in 0..Len(published[object]),
               Told(object, serial)
        PROVE  ToldIsSeen'
    <2>1. Len(published[object]) \in Nat
      BY LengthOfSeq DEF TypeOK, ServerTypeOK
    <2>2. serial /= 0 => serial \in 1..serial
      BY <1>8, <2>1
    <2>3. \A call : serial /= 0 /\ call.serial = serial => Seen(object, call)
      BY <1>8, <2>2 DEF Seen
    <2> QED BY <1>5, <1>8, <2>3, ListenerObjectCases
  <1> QED BY <1>4, <1>6, <1>7, <1>8, ToldSteps

\* The reports made so far stay in the history.
LEMMA PublishedGrows ==
    ASSUME TypeOK, [Next]_vars, NEW object \in Objects,
           NEW serial \in 1..Len(published[object])
    PROVE  /\ serial \in 1..Len(published'[object])
           /\ published'[object][serial] = published[object][serial]
  <1> DEFINE Goal == /\ serial \in 1..Len(published'[object])
                     /\ published'[object][serial] = published[object][serial]
  <1> HIDE DEF Goal
  <1>1. ASSUME UNCHANGED published PROVE Goal
    BY <1>1 DEF Goal
  <1>2. ASSUME NEW p \in Objects, NEW args, NEW value, Queued(p, args, value)
        PROVE  Goal
    <2>1. ServerTypeOK
      BY DEF TypeOK
    <2>2. /\ Len(published[p]) \in Nat
          /\ Len(published'[p]) = Len(published[p]) + 1
          /\ \A i \in 1..Len(published[p]) : published'[p][i] = published[p][i]
          /\ \A q \in Objects : q /= p => published'[q] = published[q]
      BY <1>2, <2>1, QueuedElements
    <2>3. CASE object = p
      BY <2>2, <2>3 DEF Goal
    <2>4. CASE object /= p
      BY <2>2, <2>4 DEF Goal
    <2> QED BY <2>3, <2>4
  <1>3. ASSUME Server PROVE Goal
    <2>1. ServerNext
      BY <1>3 DEF Server
    <2> QED BY <1>1, <1>2, <2>1, ServerSteps DEF Serve, Show
  <1>4. Goal
    BY <1>1, <1>3
    DEF Next, AskServer, Constructor, TellInitial, Insert, Announce, AddMonitorPVs,
        Deliver, RunCallback, DestroyMonitors, DestroyManager, vars, serverVars
  <1> QED BY <1>4 DEF Goal

\* The listener was told what the job reported.
LEMMA ToldStep ==
    ASSUME TypeOK, CallbackIsThere, ValuesCarryReports, DeliveredIsSeen,
           ConstructorInOrder, ToldIsSeen, ToldIsPublished, [Next]_vars
    PROVE  ToldIsPublished'
  <1>1. DOMAIN told = ListenerObjects /\ DOMAIN told' = ListenerObjects
    <2>1. DOMAIN told = ListenerObjects
      BY DEF TypeOK, ManagerTypeOK
    <2> QED BY <2>1, ToldSteps DEF Told
  <1>2. ASSUME NEW object \in ListenerObjects, NEW call \in told[object]
        PROVE  call.args = ArgsOf(object, call.serial)'
    <2>1. call.args = ArgsOf(object, call.serial)
      BY <1>1, <1>2 DEF ToldIsPublished
    <2>2. CASE call.serial = 0
      BY <2>1, <2>2 DEF ArgsOf
    <2>3. CASE call.serial /= 0
      <3>1. object \in Objects
        BY <2>3, ListenerObjectCases DEF ToldIsSeen
      <3> DEFINE name == NameOf[object]
                 m == shown[name][seen[name]].serial
                 n == Len(published[object])
      <3>2. seen[name] \in DOMAIN shown[name] /\ call.serial \in 1..m /\ name \in Names
        BY <2>3, <3>1, NamesAreOfObjects DEF ToldIsSeen
      <3>3. m \in 0..n /\ n \in Nat
        <4>1. n \in Nat
          BY <3>1, LengthOfSeq DEF TypeOK, ServerTypeOK
        <4>2. PICK value \in Base64DecodeAnyValue(shown[name][seen[name]].value) :
                 Carries(name, m, value)
          BY <3>2 DEF ValuesCarryReports
        <4>3. m \in 0..n
          BY <3>1, <4>2, NamesIdentify DEF Carries
        <4> QED BY <4>1, <4>3
      <3> HIDE DEF m, n
      <3>4. call.serial \in 1..n
        BY <3>2, <3>3
      <3>5. published'[object][call.serial] = published[object][call.serial]
        BY <3>1, <3>4, PublishedGrows DEF n
      <3> QED BY <2>1, <2>3, <3>5 DEF ArgsOf
    <2> QED BY <2>2, <2>3
  <1>3. CASE UNCHANGED told
    BY <1>1, <1>2, <1>3 DEF ToldIsPublished
  <1>4. ASSUME NEW o \in ListenerObjects, NEW serial, Told(o, serial),
               UNCHANGED serverVars
        PROVE  ToldIsPublished'
    <2>1. /\ told'[o] = {[serial |-> serial, args |-> ArgsOf(o, serial)]}
          /\ \A other \in ListenerObjects : other /= o => told'[other] = told[other]
      BY <1>4, ToldReplaces
    <2>2. ArgsOf(o, serial)' = ArgsOf(o, serial)
      BY <1>4 DEF serverVars, ArgsOf
    <2>3. ASSUME NEW object \in ListenerObjects, NEW call \in told'[object]
          PROVE  call.args = ArgsOf(object, call.serial)'
      <3>1. CASE object = o
        <4>1. call = [serial |-> serial, args |-> ArgsOf(o, serial)]
          BY <2>1, <2>3, <3>1
        <4>2. call.serial = serial /\ call.args = ArgsOf(o, serial)
          BY <4>1
        <4> QED BY <2>2, <3>1, <4>2
      <3>2. CASE object /= o
        BY <1>2, <2>1, <2>3, <3>2
      <3> QED BY <3>1, <3>2
    <2> QED BY <1>1, <2>3 DEF ToldIsPublished
  <1> QED BY <1>3, <1>4, ToldSteps, ListenerObjectCases

-----------------------------------------------------------------------------
(* The indices of the entries.                                             *)

\* A quotient and a remainder determine each other.
LEMMA RemainderIsUnique ==
    ASSUME NEW d \in Nat \ {0}, NEW n \in Nat, NEW q \in Nat, NEW r \in 0..(d - 1),
           n = (d * q) + r
    PROVE  n % d = r
  OBVIOUS

\* Counting one up, modulo d.
LEMMA NextRemainder ==
    ASSUME NEW d \in Nat \ {0}, NEW n \in Nat
    PROVE  (n + 1) % d = IF n % d = d - 1 THEN 0 ELSE (n % d) + 1
  <1> DEFINE q == n \div d
             r == n % d
  <1>1. q \in Nat /\ r \in 0..(d - 1)
    OBVIOUS
  <1>2. n = (d * q) + r
    OBVIOUS
  <1> HIDE DEF q, r
  <1>3. CASE r = d - 1
    <2>1. n + 1 = (d * (q + 1)) + 0
      BY <1>1, <1>2, <1>3
    <2>2. 0 \in 0..(d - 1) /\ q + 1 \in Nat /\ n + 1 \in Nat
      BY <1>1
    <2>3. (n + 1) % d = 0
      BY <2>1, <2>2, RemainderIsUnique
    <2> QED BY <1>3, <2>3 DEF r
  <1>4. CASE r /= d - 1
    <2>1. n + 1 = (d * q) + (r + 1)
      BY <1>1, <1>2
    <2>2. r + 1 \in 0..(d - 1) /\ n + 1 \in Nat
      BY <1>1, <1>4
    <2>3. (n + 1) % d = r + 1
      BY <1>1, <2>1, <2>2, RemainderIsUnique
    <2> QED BY <1>4, <2>3 DEF r
  <1> QED BY <1>3, <1>4

\* The index that belongs to the n-th entry.
IndexFor(n) == IF n = 0 THEN 0 ELSE 1 + ((n - 1) % (IndexModulus - 1))

\* NewIndex gives the next entry its index, skipping zero.
LEMMA NewIndexIsNext ==
    ASSUME NEW n \in Nat, NEW kind, m_last_idx[kind] = IndexFor(n)
    PROVE  NewIndex(kind) = IndexFor(n + 1)
  <1> DEFINE M == IndexModulus
             d == M - 1
  <1>1. M \in Nat /\ M >= 2 /\ d \in Nat \ {0}
    BY IndexModulusAssumption
  <1>2. IndexFor(n + 1) = 1 + (n % d)
    BY DEF IndexFor
  <1>3. CASE n = 0
    <2>1. m_last_idx[kind] = 0
      BY <1>3 DEF IndexFor
    <2>2. 1 % M = 1 /\ 0 % d = 0
      <3> HIDE DEF d, M
      <3>1. 1 = (M * 0) + 1 /\ 0 = (d * 0) + 0 /\ 1 \in 0..(M - 1) /\ 0 \in 0..(d - 1)
        BY <1>1
      <3> QED BY <1>1, <3>1, RemainderIsUnique
    <2> QED BY <1>2, <1>3, <2>1, <2>2 DEF NewIndex
  <1>4. CASE n /= 0
    <2> DEFINE r == (n - 1) % d
    <2>1. n - 1 \in Nat /\ r \in 0..(d - 1)
      BY <1>1, <1>4
    <2>2. m_last_idx[kind] = 1 + r
      BY <1>4 DEF IndexFor
    <2>3. n % d = IF r = d - 1 THEN 0 ELSE r + 1
      <3> DEFINE k == n - 1
      <3>1. k \in Nat /\ k + 1 = n
        BY <2>1
      <3> HIDE DEF k, d
      <3>2. (k + 1) % d = IF k % d = d - 1 THEN 0 ELSE (k % d) + 1
        BY <1>1, <3>1, NextRemainder
      <3> QED BY <3>1, <3>2 DEF k
    <2> HIDE DEF r
    <2>4. CASE r = d - 1
      <3>1. (1 + r) + 1 = M
        BY <1>1, <2>4
      <3>2. M % M = 0
        <4> HIDE DEF M
        <4>1. M = (M * 1) + 0 /\ 0 \in 0..(M - 1) /\ M \in Nat \ {0}
          BY <1>1
        <4> QED BY <4>1, RemainderIsUnique
      <3>3. (m_last_idx[kind] + 1) % IndexModulus = 0
        BY <2>2, <3>1, <3>2
      <3> QED BY <1>2, <2>3, <2>4, <3>3 DEF NewIndex
    <2>5. CASE r /= d - 1
      <3>1. r + 2 \in 0..(M - 1) /\ r + 2 /= 0 /\ (1 + r) + 1 = r + 2
        BY <1>1, <2>1, <2>5
      <3>2. (r + 2) % M = r + 2
        <4> HIDE DEF M
        <4>1. r + 2 = (M * 0) + (r + 2) /\ M \in Nat \ {0} /\ r + 2 \in Nat
          BY <1>1, <3>1
        <4> QED BY <3>1, <4>1, RemainderIsUnique
      <3>3. (m_last_idx[kind] + 1) % IndexModulus = r + 2
        BY <2>2, <3>1, <3>2
      <3>4. NewIndex(kind) = r + 2
        BY <3>1, <3>3 DEF NewIndex
      <3>5. IndexFor(n + 1) = 1 + (r + 1)
        BY <1>2, <2>3, <2>5
      <3>6. 1 + (r + 1) = r + 2
        BY <2>1
      <3> QED BY <3>4, <3>5, <3>6
    <2> QED BY <2>4, <2>5
  <1> QED BY <1>3, <1>4

\* The threads that make an entry of the kind.
Making(e, kind) == {t \in Threads : e[t] /= NoEntry /\ e[t].kind = kind}

\* A thread more or less.
LEMMA MakingChanges ==
    ASSUME NEW e, NEW f, NEW kind, NEW t \in Threads,
           \A u \in Threads : u /= t => f[u] = e[u]
    PROVE  /\ Cardinality(Making(e, kind)) \in Nat
           /\ (t \in Making(e, kind) <=> t \in Making(f, kind))
                 => Making(f, kind) = Making(e, kind)
           /\ t \notin Making(e, kind) /\ t \in Making(f, kind)
                 => Cardinality(Making(f, kind)) = Cardinality(Making(e, kind)) + 1
           /\ t \in Making(e, kind) /\ t \notin Making(f, kind)
                 => Cardinality(Making(f, kind)) = Cardinality(Making(e, kind)) - 1
  <1>1. IsFiniteSet(Making(e, kind)) /\ Cardinality(Making(e, kind)) \in Nat
    <2>1. Making(e, kind) \subseteq Threads
      BY DEF Making
    <2> QED BY <2>1, ThreadsAssumption, FS_Subset, FS_CardinalityType
  <1>2. \A u \in Threads : u /= t => (u \in Making(e, kind) <=> u \in Making(f, kind))
    BY DEF Making
  <1>3. Making(e, kind) \subseteq Threads /\ Making(f, kind) \subseteq Threads
    BY DEF Making
  <1> DEFINE E == Making(e, kind)
             F == Making(f, kind)
  <1> HIDE DEF E, F
  <1>4. /\ \A u \in Threads : u /= t => (u \in E <=> u \in F)
        /\ E \subseteq Threads /\ F \subseteq Threads
        /\ IsFiniteSet(E) /\ Cardinality(E) \in Nat
    BY <1>1, <1>2, <1>3 DEF E, F
  <1>5. (t \in E <=> t \in F) => F = E
    BY <1>4
  <1>6. t \notin E /\ t \in F => F = E \cup {t}
    BY <1>4
  <1>7. t \in E /\ t \notin F => F = E \ {t}
    BY <1>4
  <1>8. /\ Cardinality(E \cup {t}) = IF t \in E THEN Cardinality(E)
                                     ELSE Cardinality(E) + 1
        /\ Cardinality(E \ {t}) = IF t \in E THEN Cardinality(E) - 1
                                  ELSE Cardinality(E)
    BY <1>4, FS_AddElement, FS_RemoveElement
  <1> QED BY <1>4, <1>5, <1>6, <1>7, <1>8 DEF E, F

\* A report that is no entry leaves the histories of the entries alone.
LEMMA ReportsAreNoEntries ==
    ASSUME TypeOK, JobReports, ~ \E t \in Threads, kind \in Entries : TakeIndex(t, kind)
    PROVE  /\ UNCHANGED <<m_last_idx, entry>>
           /\ \A kind \in Entries : published'[<<kind, 0>>] = published[<<kind, 0>>]
  <1> DEFINE Goal == /\ UNCHANGED <<m_last_idx, entry>>
                     /\ \A kind \in Entries :
                           published'[<<kind, 0>>] = published[<<kind, 0>>]
  <1> HIDE DEF Goal
  <1>1. ASSUME NEW object, NEW args, NEW name, NEW value,
               object[1] \notin Entries, Report(object, args, name, value)
        PROVE  Goal
    <2>1. \A kind \in Entries : object /= <<kind, 0>>
      BY <1>1
    <2>2. UNCHANGED <<m_last_idx, entry>>
      BY <1>1 DEF Report
    <2>3. \/ UNCHANGED published
          \/ published' = [published EXCEPT ![object] = Append(@, args)]
      BY <1>1 DEF Report, UpdateAnyValue
    <2> QED BY <2>1, <2>2, <2>3, ObjectCases DEF Goal, Entries, TypeOK, ServerTypeOK
  <1>2. /\ "JobStateUpdated" \notin Entries
        /\ "BreakpointInstructionUpdated" \notin Entries
        /\ "InstructionStateUpdated" \notin Entries
        /\ "VariableUpdated" \notin Entries
    BY DEF Entries
  <1>3. \A data : JobStateUpdated(data) => Goal
    BY <1>1, <1>2 DEF JobStateUpdated
  <1>4. \A data : BreakpointInstructionUpdated(data) => Goal
    BY <1>1, <1>2 DEF BreakpointInstructionUpdated
  <1>5. \A i, data : InstructionStateUpdated(i, data) => Goal
    BY <1>1, <1>2 DEF InstructionStateUpdated
  <1>6. \A i, value, connected : VariableUpdated(i, value, connected) => Goal
    BY <1>1, <1>2 DEF VariableUpdated
  <1> QED BY <1>3, <1>4, <1>5, <1>6 DEF JobReports, Goal

\* The index generators count the entries.
LEMMA IndexStep ==
    ASSUME TypeOK, IndexIsSerial, [Next]_vars
    PROVE  IndexIsSerial'
  <1>0. ServerTypeOK
    BY DEF TypeOK
  <1> DEFINE count(kind) == Len(published[<<kind, 0>>])
                               + Cardinality(Making(entry, kind))
  <1>1. \A kind \in Entries : m_last_idx[kind] = IndexFor(count(kind))
    BY DEF IndexIsSerial, IndexFor, Made, Making
  <1>2. ASSUME \A kind \in Entries : m_last_idx'[kind] = IndexFor(count(kind)')
        PROVE  IndexIsSerial'
    BY <1>2 DEF IndexIsSerial, IndexFor, Made, Making
  <1>3. \A kind \in Entries : <<kind, 0>> \in Objects
    BY ObjectCases DEF Entries
  <1>4. \A kind \in Entries : Len(published[<<kind, 0>>]) \in Nat
    BY <1>0, <1>3, LengthOfSeq DEF ServerTypeOK
  <1>5. ASSUME UNCHANGED <<m_last_idx, entry>>,
               \A kind \in Entries : published'[<<kind, 0>>] = published[<<kind, 0>>]
        PROVE  IndexIsSerial'
    <2>1. \A kind \in Entries : count(kind)' = count(kind)
      BY <1>5 DEF Making
    <2> HIDE DEF count
    <2> QED BY <1>1, <1>2, <1>5, <2>1
  <1>6. ASSUME NEW t \in Threads, NEW kind \in Entries, TakeIndex(t, kind)
        PROVE  IndexIsSerial'
    <2> DEFINE e == [kind |-> kind, index |-> NewIndex(kind), data |-> reports + 1]
    <2>1. /\ entry[t] = NoEntry
          /\ m_last_idx' = [m_last_idx EXCEPT ![kind] = NewIndex(kind)]
          /\ entry' = [entry EXCEPT ![t] = e]
          /\ UNCHANGED published
      BY <1>6 DEF TakeIndex
    <2>2. DOMAIN entry = Threads /\ DOMAIN m_last_idx = Entries
      BY <1>0 DEF ServerTypeOK
    <2>3. entry'[t] = e /\ \A u \in Threads : u /= t => entry'[u] = entry[u]
      BY <2>1, <2>2
    <2>4. e /= NoEntry
      <3>1. ServerTypeOK'
        <4>1. JobReports
          BY <1>6 DEF JobReports
        <4> QED BY <4>1, ServerTypeStep DEF ServerNext
      <3>2. entry'[t] \in {NoEntry} \cup Entry
        BY <3>1 DEF ServerTypeOK
      <3>3. NewIndex(kind) \in Nat /\ reports + 1 \in Nat
        <4>1. m_last_idx[kind] \in 0..(IndexModulus - 1) /\ reports \in Nat
          BY <1>0, BoundsAssumption DEF ServerTypeOK
        <4>2. (m_last_idx[kind] + 1) % IndexModulus \in 0..(IndexModulus - 1)
          BY <4>1, IndexModulusAssumption
        <4> QED BY <4>1, <4>2, IndexModulusAssumption DEF NewIndex
      <3>4. e \in Entry
        BY <3>3 DEF Entry
      <3> QED BY <3>4, NoEntryAssumption
    <2>5. e.kind = kind
      OBVIOUS
    <2> HIDE DEF e
    <2>6. ASSUME NEW other \in Entries
          PROVE  /\ Cardinality(Making(entry, other)) \in Nat
                 /\ Cardinality(Making(entry', other))
                       = IF other = kind THEN Cardinality(Making(entry, other)) + 1
                         ELSE Cardinality(Making(entry, other))
      <3>1. /\ t \notin Making(entry, other)
            /\ t \in Making(entry', other) <=> other = kind
        BY <2>1, <2>3, <2>4, <2>5 DEF Making
      <3> QED BY <2>3, <3>1, MakingChanges
    <2>7. ASSUME NEW other \in Entries
          PROVE  /\ count(other) \in Nat
                 /\ count(other)' = IF other = kind THEN count(other) + 1
                                    ELSE count(other)
      <3>1. /\ Len(published[<<other, 0>>]) \in Nat
            /\ Len(published'[<<other, 0>>]) = Len(published[<<other, 0>>])
        BY <1>4, <2>1
      <3>2. CASE other = kind
        BY <2>6, <3>1, <3>2
      <3>3. CASE other /= kind
        BY <2>6, <3>1, <3>3
      <3> QED BY <3>2, <3>3
    <2> HIDE DEF count
    <2>8. ASSUME NEW other \in Entries
          PROVE  m_last_idx'[other] = IndexFor(count(other)')
      <3>1. CASE other = kind
        <4>1. NewIndex(kind) = IndexFor(count(kind) + 1)
          BY <1>1, <2>7, NewIndexIsNext
        <4>2. m_last_idx'[kind] = NewIndex(kind) /\ count(kind)' = count(kind) + 1
          BY <2>1, <2>2, <2>7
        <4> QED BY <3>1, <4>1, <4>2
      <3>2. CASE other /= kind
        BY <1>1, <2>1, <2>2, <2>7, <3>2
      <3> QED BY <3>1, <3>2
    <2> QED BY <1>2, <2>8
  <1>7. ASSUME NEW t \in Threads, FinishEntry(t)
        PROVE  IndexIsSerial'
    <2> DEFINE kind == entry[t].kind
               object == <<kind, 0>>
    <2>1. /\ entry[t] /= NoEntry
          /\ kind \in Entries
          /\ object \in Objects
          /\ \E args, value : Publishes(object, args, value)
          /\ entry' = [entry EXCEPT ![t] = NoEntry]
          /\ UNCHANGED m_last_idx
      BY <1>7, EntriesPublish
    <2>2. PICK args, value : Publishes(object, args, value)
      BY <2>1
    <2>3. Queued(object, args, value)
      <3>1. SetOf(object) = "job"
        BY <2>1 DEF SetOf, Entries
      <3> HIDE DEF object
      <3> QED BY <2>1, <2>2, <3>1, PublishedIsQueued
    <2>4. /\ Len(published'[object]) = Len(published[object]) + 1
          /\ \A p \in Objects : p /= object => published'[p] = published[p]
      <3> HIDE DEF object
      <3> QED BY <1>0, <2>1, <2>3, QueuedElements
    <2>5. entry'[t] = NoEntry /\ \A u \in Threads : u /= t => entry'[u] = entry[u]
      BY <1>0, <2>1 DEF ServerTypeOK
    <2>6. ASSUME NEW other \in Entries
          PROVE  /\ Cardinality(Making(entry, other)) \in Nat
                 /\ Cardinality(Making(entry', other))
                       = IF other = kind THEN Cardinality(Making(entry, other)) - 1
                         ELSE Cardinality(Making(entry, other))
      <3>1. /\ t \in Making(entry, other) <=> other = kind
            /\ t \notin Making(entry', other)
        BY <2>1, <2>5 DEF Making
      <3> QED BY <2>5, <3>1, MakingChanges
    <2>7. ASSUME NEW other \in Entries
          PROVE  Len(published'[<<other, 0>>]) = IF other = kind
                    THEN Len(published[<<other, 0>>]) + 1
                    ELSE Len(published[<<other, 0>>])
      BY <1>3, <2>4
    <2> HIDE DEF kind, object
    <2>8. ASSUME NEW other \in Entries
          PROVE  count(other)' = count(other)
      BY <1>4, <2>6, <2>7
    <2> HIDE DEF count
    <2> QED BY <1>1, <1>2, <2>1, <2>8
  <1>8. ASSUME NEW s \in Sets, Serve(s) \/ Show(s)
        PROVE  IndexIsSerial'
    BY <1>5, <1>8 DEF Serve, Show
  <1>9. CASE Server
    <2>1. ServerNext
      BY <1>9 DEF Server
    <2>2. CASE JobReports
      BY <1>5, <1>6, <2>2, ReportsAreNoEntries
    <2>3. CASE InitNumberOfInstructions
      BY <1>5, <2>3 DEF InitNumberOfInstructions
    <2> QED BY <1>7, <1>8, <2>1, <2>2, <2>3 DEF ServerNext, ServerWorks
  <1>10. CASE UNCHANGED serverVars
    BY <1>5, <1>10 DEF serverVars
  <1> QED
    BY <1>9, <1>10
    DEF Next, AskServer, Constructor, TellInitial, Insert, Announce, AddMonitorPVs,
        Deliver, RunCallback, DestroyMonitors, DestroyManager, vars

-----------------------------------------------------------------------------
(* The theorems.                                                           *)

\* The initial states satisfy the invariant.
LEMMA IndInit == Init => IndInv /\ ToldIsPublished
  <1> SUFFICES ASSUME Init PROVE IndInv /\ ToldIsPublished
    OBVIOUS
  <1>1. TypeOK
    BY TypeInit
  <1>2. /\ \A s \in Sets : updates[s] = <<>>
        /\ \A name \in Names : shown[name] = <<>> /\ seen[name] = 1
        /\ \A w \in Workers : worker[w] = NoUpdate
        /\ \A object \in ListenerObjects : told[object] = {}
        /\ DOMAIN told = ListenerObjects
        /\ monitors = {} /\ stage = "rpc"
    BY DEF Init, ServerInit, ManagerInit
  <1>3. CallbackIsThere /\ ServedTogether /\ ConstructorInOrder
    BY <1>2, NamesAreOfObjects DEF CallbackIsThere, ServedTogether, ConstructorInOrder
  <1>4. IndexIsSerial
    <2>1. ASSUME NEW kind \in Entries
          PROVE  m_last_idx[kind] = 0 /\ Made(kind) = 0
      <3>1. <<kind, 0>> \in Objects
        BY ObjectCases DEF Entries
      <3>2. published[<<kind, 0>>] = <<>> /\ m_last_idx[kind] = 0
        BY <3>1 DEF Init, ServerInit
      <3>3. {t \in Threads : entry[t] /= NoEntry /\ entry[t].kind = kind} = {}
        BY DEF Init, ServerInit
      <3>4. Made(kind) = 0 + 0
        BY <3>2, <3>3, EmptyIsSeq, FS_EmptySet DEF Made
      <3> QED BY <3>2, <3>4
    <2> QED BY <2>1 DEF IndexIsSerial
  <1>5. ValuesCarryReports /\ SerialsIncrease
    BY <1>2, EmptyIsSeq DEF ValuesCarryReports, SerialsIncrease
  <1>6. DeliveredIsSeen
    BY <1>2 DEF DeliveredIsSeen
  <1>7. ToldIsSeen /\ ToldIsPublished
    BY <1>2, ListenerObjectCases DEF ToldIsSeen, ToldIsPublished
  <1> QED BY <1>1, <1>3, <1>4, <1>5, <1>6, <1>7 DEF IndInv

\* Every step preserves it.
LEMMA IndStep ==
    ASSUME IndInv, ToldIsPublished, [Next]_vars
    PROVE  IndInv' /\ ToldIsPublished'
  <1>1. /\ TypeOK /\ CallbackIsThere /\ IndexIsSerial /\ ValuesCarryReports
        /\ SerialsIncrease /\ ServedTogether /\ DeliveredIsSeen /\ ToldIsSeen
        /\ ConstructorInOrder
    BY DEF IndInv
  <1>2. TypeOK'
    BY TypeStep
  <1>3. CallbackIsThere' /\ ConstructorInOrder'
    BY <1>1, CallbackStep, ConstructorStep
  <1>4. IndexIsSerial'
    BY <1>1, IndexStep
  <1>5. ValuesCarryReports' /\ SerialsIncrease' /\ ServedTogether'
    BY <1>1, ValuesStep, SerialsStep, ServedStep
  <1>6. DeliveredIsSeen' /\ ToldIsSeen'
    BY <1>1, SeenStep, ToldSeenStep
  <1>7. ToldIsPublished'
    BY <1>1, ToldStep
  <1> QED BY <1>2, <1>3, <1>4, <1>5, <1>6, <1>7 DEF IndInv

\* A report is not followed by an older one.
LEMMA BackwardsStep ==
    ASSUME IndInv, [Next]_vars,
           NEW object \in DOMAIN told, NEW old \in told[object],
           NEW new \in told'[object]
    PROVE  new.serial >= old.serial
  <1> DEFINE number == <<"InitNumberOfInstructions", 0>>
  <1>1. /\ TypeOK /\ CallbackIsThere /\ ValuesCarryReports /\ DeliveredIsSeen
        /\ ToldIsSeen /\ ConstructorInOrder
    BY DEF IndInv
  <1>2. object \in ListenerObjects
    BY <1>1 DEF TypeOK, ManagerTypeOK
  <1>3. \A serial : serial \in 0..Len(published[object]) /\ object \in Objects
                       => serial \in Nat
    BY <1>1, LengthOfSeq DEF TypeOK, ServerTypeOK
  <1>4. object = number => old.serial = 0
    BY <1>1 DEF ToldIsSeen
  <1>5. /\ old.serial = 0 \/ object \in Objects
        /\ old.serial /= 0 =>
              /\ m_cb_map[NameOf[object]] /= NoCallback \/ stage = "destroyed"
              /\ old.serial \in 1..shown[NameOf[object]][seen[NameOf[object]]].serial
    BY <1>1, <1>2, <1>4, ListenerObjectCases DEF ToldIsSeen
  <1>6. CASE UNCHANGED told
    <2>1. new = old
      BY <1>1, <1>2, <1>6 DEF ToldIsSeen
    <2>2. old.serial \in Int
      BY <1>5
    <2> QED BY <2>1, <2>2
  <1>7. ASSUME NEW o \in ListenerObjects, NEW serial, serial \in Nat, Told(o, serial),
               o = object /\ old.serial /= 0 => serial >= old.serial
        PROVE  new.serial >= old.serial
    <2>1. CASE o = object
      <3>1. new.serial = serial
        BY <1>1, <1>7, <2>1, ToldReplaces
      <3> QED BY <1>7, <2>1, <3>1
    <2>2. CASE o /= object
      <3>1. new \in told[object]
        BY <1>1, <1>2, <1>7, <2>2, ToldReplaces
      <3>2. new = old
        BY <1>1, <1>2, <3>1 DEF ToldIsSeen
      <3>3. old.serial \in Int
        BY <1>5
      <3> QED BY <3>2, <3>3
    <2> QED BY <2>1, <2>2
  <1>8. CASE Told(number, 0)
    BY <1>4, <1>7, <1>8, ListenerObjectCases
  <1>9. ASSUME NEW o \in Objects, m_cb_map[NameOf[o]] = NoCallback,
               stage \notin {"destroy", "destroyed"}, Told(o, 0)
        PROVE  new.serial >= old.serial
    BY <1>5, <1>7, <1>9, ListenerObjectCases
  <1>10. ASSUME NEW o \in Objects, NEW serial,
                serial = shown[NameOf[o]][seen[NameOf[o]]].serial,
                serial \in 0..Len(published[o]), Told(o, serial)
         PROVE  new.serial >= old.serial
    <2>1. serial \in Nat
      BY <1>1, <1>10, LengthOfSeq DEF TypeOK, ServerTypeOK
    <2>2. o = object /\ old.serial /= 0 => serial >= old.serial
      BY <1>5, <1>10, <2>1
    <2> QED BY <1>7, <1>10, <2>1, <2>2, ListenerObjectCases
  <1> QED BY <1>1, <1>6, <1>8, <1>9, <1>10, ToldSteps

\* The types, the life of a callback, the indices of the entries and the way of a
\* report, for any numbers of variables, instructions, reports and threads.
THEOREM IndInvariant == Spec => []IndInv
  <1>1. Init => IndInv /\ ToldIsPublished
    BY IndInit
  <1>2. (IndInv /\ ToldIsPublished) /\ [Next]_vars => (IndInv /\ ToldIsPublished)'
    BY IndStep
  <1> QED BY <1>1, <1>2, PTL DEF Spec

\* The listener's calls repeat the calls of the job, with the same arguments:
\* encoding, naming, queueing, parsing and decoding lose and swap none of them.
THEOREM ReportsArriveAsMade == Spec => []ToldIsPublished
  <1>1. Init => IndInv /\ ToldIsPublished
    BY IndInit
  <1>2. (IndInv /\ ToldIsPublished) /\ [Next]_vars => (IndInv /\ ToldIsPublished)'
    BY IndStep
  <1> QED BY <1>1, <1>2, PTL DEF Spec

\* The listener is never told an older report after a newer one about the same
\* object, whatever values the monitors skip or repeat.
THEOREM ReportsNeverGoBack == Spec => NeverBackwards
  <1>1. IndInv /\ [Next]_vars
           => [\A object \in DOMAIN told :
                  \A old \in told[object], new \in told'[object] :
                     new.serial >= old.serial]_vars
    BY BackwardsStep
  <1> QED BY <1>1, IndInvariant, PTL DEF Spec, NeverBackwards

\* The listener is told nothing once the destructor has destroyed the monitors.
THEOREM NothingIsToldAfterDestruction == Spec => NothingAfterDestruction
  <1>1. IndInv /\ [Next]_vars
           => [(stage \in {"destroy", "destroyed"}) => told' = told]_vars
    BY ToldSteps DEF IndInv
  <1> QED BY <1>1, IndInvariant, PTL DEF Spec, NothingAfterDestruction

=============================================================================
