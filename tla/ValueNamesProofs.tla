---------------------------- MODULE ValueNamesProofs ----------------------------
(***************************************************************************)
(* Proofs about ParseValueName, for names of any length.                   *)
(***************************************************************************)
EXTENDS ValueNames, SequenceTheorems, WellFoundedInduction, TLAPS

(* The selection of an element of a sequence.                              *)

\* A set of positions has a first one.
LEMMA FirstPosition ==
    ASSUME NEW T \in SUBSET Nat, T /= {}
    PROVE  Min(T) \in T /\ \A y \in T : Min(T) <= y
  <1>1. PICK x \in T : \A y \in T : ~ (<<y, x>> \in OpToRel(<, Nat))
    <2> DEFINE R == OpToRel(<, Nat)
    <2>1. IsWellFoundedOn(R, Nat)
      BY NatLessThanWellFounded
    <2> HIDE DEF R
    <2>2. \E x \in T : \A y \in T : ~ (<<y, x>> \in R)
      BY <2>1, WFMin
    <2> QED BY <2>2 DEF R
  <1>2. \A y \in T : x =< y
    <2> SUFFICES ASSUME NEW y \in T PROVE x =< y
      OBVIOUS
    <2>1. <<y, x>> \in Nat \X Nat /\ ~ (<<y, x>> \in OpToRel(<, Nat))
      BY <1>1
    <2>2. ~ (y < x)
      BY <2>1 DEF OpToRel
    <2> QED BY <2>2
  <1> QED BY <1>2 DEF Min

\* A set of positions has a last one.
LEMMA LastPosition ==
    ASSUME NEW n \in Nat, NEW T \in SUBSET (1..n), T /= {}
    PROVE  Max(T) \in T /\ \A y \in T : y <= Max(T)
  <1> DEFINE D == {n - x : x \in T}
  <1>1. D \subseteq Nat
    OBVIOUS
  <1>2. D /= {}
    OBVIOUS
  <1>3. Min(D) \in D /\ \A d \in D : Min(D) <= d
    <2> HIDE DEF D
    <2> QED BY <1>1, <1>2, FirstPosition
  <1>4. PICK x \in T : Min(D) = n - x
    BY <1>3
  <1>5. \A y \in T : x >= y
    <2> SUFFICES ASSUME NEW y \in T PROVE x >= y
      OBVIOUS
    <2>1. n - y \in D
      OBVIOUS
    <2>2. n - x <= n - y
      <3> HIDE DEF D
      <3> QED BY <1>3, <1>4, <2>1
    <2>3. x \in 1..n /\ y \in 1..n
      OBVIOUS
    <2> HIDE DEF D
    <2> QED BY <2>2, <2>3
  <1> HIDE DEF D
  <1>6. \A y \in T : y \in Int
    OBVIOUS
  <1> QED BY <1>5, <1>6 DEF Max

-----------------------------------------------------------------------------
(* The ends of a name.                                                     *)

\* EndsWith compares the last tokens.
LEMMA EndsWithTokens ==
    ASSUME NEW S, NEW s \in Seq(S), NEW T, NEW t \in Seq(T)
    PROVE  EndsWith(s, t) <=>
              /\ Len(t) <= Len(s)
              /\ \A i \in 1..Len(t) : s[Len(s) - Len(t) + i] = t[i]
  <1> DEFINE m == Len(s)
             n == Len(t)
             a == Reverse(t)
             b == Reverse(s)
  <1>1. /\ a \in Seq(T) /\ Len(a) = n
        /\ b \in Seq(S) /\ Len(b) = m
    BY DEF Reverse
  <1>2. /\ \A i \in 1..n : a[i] = t[n - i + 1]
        /\ \A i \in 1..m : b[i] = s[m - i + 1]
    BY DEF Reverse
  <1>3. m \in Nat /\ n \in Nat
    OBVIOUS
  <1> HIDE DEF a, b
  <1>4. EndsWith(s, t) <=> n <= m /\ SubSeq(a, 1, n) = SubSeq(b, 1, n)
    BY <1>1 DEF EndsWith, IsSuffix, IsPrefix, a, b
  <1> HIDE DEF m, n
  <1>5. ASSUME n <= m
        PROVE  SubSeq(a, 1, n) = SubSeq(b, 1, n) <=>
                  \A i \in 1..n : s[m - n + i] = t[i]
    <2>1. /\ SubSeq(a, 1, n) \in Seq(S \cup T) /\ Len(SubSeq(a, 1, n)) = n
          /\ SubSeq(b, 1, n) \in Seq(S \cup T) /\ Len(SubSeq(b, 1, n)) = n
          /\ \A i \in 1..n : SubSeq(a, 1, n)[i] = a[i]
          /\ \A i \in 1..n : SubSeq(b, 1, n)[i] = b[i]
      <3>1. (\A i \in 1..n : a[i] \in S \cup T) /\ \A i \in 1..n : b[i] \in S \cup T
        BY <1>1, <1>3, <1>5
      <3> QED BY <1>3, <3>1, SubSeqProperties
    <2>2. SubSeq(a, 1, n) = SubSeq(b, 1, n) <=> \A i \in 1..n : a[i] = b[i]
      BY <2>1, SeqEqual
    <2>3. ASSUME \A i \in 1..n : a[i] = b[i], NEW i \in 1..n
          PROVE  s[m - n + i] = t[i]
      <3>1. n - i + 1 \in 1..n /\ n - i + 1 \in 1..m
        BY <1>3, <1>5
      <3>2. t[n - (n - i + 1) + 1] = s[m - (n - i + 1) + 1]
        BY <1>2, <2>3, <3>1
      <3>3. n - (n - i + 1) + 1 = i /\ m - (n - i + 1) + 1 = m - n + i
        BY <1>3
      <3> QED BY <3>2, <3>3
    <2>4. ASSUME \A i \in 1..n : s[m - n + i] = t[i], NEW i \in 1..n
          PROVE  a[i] = b[i]
      <3>1. n - i + 1 \in 1..n /\ i \in 1..m
        BY <1>3, <1>5
      <3>2. s[m - n + (n - i + 1)] = t[n - i + 1]
        BY <2>4, <3>1
      <3>3. m - n + (n - i + 1) = m - i + 1
        BY <1>3
      <3> QED BY <1>2, <3>1, <3>2, <3>3
    <2> QED BY <2>2, <2>3, <2>4
  <1> QED BY <1>4, <1>5 DEF m, n

\* The same for one, two and three tokens.
LEMMA EndsWithOne ==
    ASSUME NEW S, NEW s \in Seq(S), NEW u
    PROVE  EndsWith(s, <<u>>) <=> 1 <= Len(s) /\ s[Len(s)] = u
  <1> DEFINE t == <<u>>
             T == {u}
  <1>1. t \in Seq(T)
    OBVIOUS
  <1>2. Len(s) \in Nat /\ Len(t) = 1 /\ t[1] = u
    OBVIOUS
  <1> HIDE DEF t, T
  <1>3. EndsWith(s, t) <=>
           /\ Len(t) <= Len(s)
           /\ \A i \in 1..Len(t) : s[Len(s) - Len(t) + i] = t[i]
    BY <1>1, EndsWithTokens
  <1>4. 1..1 = {1}
    OBVIOUS
  <1> QED BY <1>1, <1>2, <1>3, <1>4 DEF t

\* EndsWith for two tokens.
LEMMA EndsWithTwo ==
    ASSUME NEW S, NEW s \in Seq(S), NEW u, NEW v
    PROVE  EndsWith(s, <<u, v>>) <=>
              2 <= Len(s) /\ s[Len(s) - 1] = u /\ s[Len(s)] = v
  <1> DEFINE t == <<u, v>>
             T == {u, v}
  <1>1. t \in Seq(T)
    OBVIOUS
  <1>2. Len(s) \in Nat /\ Len(t) = 2 /\ t[1] = u /\ t[2] = v
    OBVIOUS
  <1> HIDE DEF t, T
  <1>3. EndsWith(s, t) <=>
           /\ Len(t) <= Len(s)
           /\ \A i \in 1..Len(t) : s[Len(s) - Len(t) + i] = t[i]
    BY <1>1, EndsWithTokens
  <1>4. 1..2 = {1, 2}
    OBVIOUS
  <1> QED BY <1>1, <1>2, <1>3, <1>4 DEF t

\* EndsWith for three tokens.
LEMMA EndsWithThree ==
    ASSUME NEW S, NEW s \in Seq(S), NEW u, NEW v, NEW w
    PROVE  EndsWith(s, <<u, v, w>>) <=>
              /\ 3 <= Len(s)
              /\ s[Len(s) - 2] = u /\ s[Len(s) - 1] = v /\ s[Len(s)] = w
  <1> DEFINE t == <<u, v, w>>
             T == {u, v, w}
  <1>1. t \in Seq(T)
    OBVIOUS
  <1>2. Len(s) \in Nat /\ Len(t) = 3 /\ t[1] = u /\ t[2] = v /\ t[3] = w
    OBVIOUS
  <1> HIDE DEF t, T
  <1>3. EndsWith(s, t) <=>
           /\ Len(t) <= Len(s)
           /\ \A i \in 1..Len(t) : s[Len(s) - Len(t) + i] = t[i]
    BY <1>1, EndsWithTokens
  <1>4. 1..3 = {1, 2, 3}
    OBVIOUS
  <1> QED BY <1>1, <1>2, <1>3, <1>4 DEF t

-----------------------------------------------------------------------------
(* The two steps of ParseValueName.                                        *)

\* The postfixes, by their tokens; their last ones differ.
LEMMA PostfixTokens ==
    ASSUME NEW S, NEW s \in Seq(S)
    PROVE  /\ EndsWith(s, Postfixes[1].postfix) <=>
                 1 <= Len(s) /\ s[Len(s)] = "STATE"
           /\ EndsWith(s, Postfixes[2].postfix) <=>
                 1 <= Len(s) /\ s[Len(s)] = "LOG"
           /\ EndsWith(s, Postfixes[3].postfix) <=>
                 1 <= Len(s) /\ s[Len(s)] = "MSG"
           /\ EndsWith(s, Postfixes[4].postfix) <=>
                 1 <= Len(s) /\ s[Len(s)] = "OUT"
           /\ EndsWith(s, Postfixes[5].postfix) <=>
                 /\ 3 <= Len(s)
                 /\ s[Len(s) - 2] = "BP" /\ s[Len(s) - 1] = "-" /\ s[Len(s)] = "INSTR"
  <1>1. /\ Postfixes[1].postfix = <<"STATE">>
        /\ Postfixes[2].postfix = <<"LOG">>
        /\ Postfixes[3].postfix = <<"MSG">>
        /\ Postfixes[4].postfix = <<"OUT">>
        /\ Postfixes[5].postfix = <<"BP", "-", "INSTR">>
    BY DEF Postfixes, kJobStateId, kLogEntryId, kMessageEntryId,
           kOutputValueEntryId, kBreakpointInstructionId
  <1>2. \A u \in {"STATE", "LOG", "MSG", "OUT"} :
           EndsWith(s, <<u>>) <=> 1 <= Len(s) /\ s[Len(s)] = u
    BY EndsWithOne
  <1>3. EndsWith(s, <<"BP", "-", "INSTR">>) <=>
           /\ 3 <= Len(s)
           /\ s[Len(s) - 2] = "BP" /\ s[Len(s) - 1] = "-" /\ s[Len(s)] = "INSTR"
    BY EndsWithThree
  <1> HIDE DEF Postfixes
  <1> QED BY <1>1, <1>2, <1>3

\* The first step finds the postfix of a name.
LEMMA PostfixIsFound ==
    ASSUME NEW S, NEW s \in Seq(S), NEW k \in 1..5,
           EndsWith(s, Postfixes[k].postfix)
    PROVE  ParseValueName(s) =
              IF s = Postfixes[k].postfix THEN Unknown
              ELSE ValueNameInfo(Postfixes[k].type, 0)
  <1> DEFINE I == {i \in 1..Len(Postfixes) : EndsWith(s, Postfixes[i].postfix)}
  <1>1. Len(Postfixes) = 5
    BY DEF Postfixes
  <1>2. \A i \in 1..5 : EndsWith(s, Postfixes[i].postfix) => i = k
    BY PostfixTokens
  <1>3. I = {k}
    BY <1>1, <1>2
  <1>4. Min({k}) = k
    BY DEF Min
  <1>5. (IF I # {} THEN Min(I) ELSE 0) = k
    BY <1>3, <1>4
  <1> QED BY <1>5 DEF ParseValueName, SelectInSeq

\* The second step, for names with none of the postfixes.
LEMMA IdentifierIsFound ==
    ASSUME NEW S, NEW s \in Seq(S),
           \A k \in 1..5 : ~ EndsWith(s, Postfixes[k].postfix)
    PROVE  ParseValueName(s) =
              IF IdentifiedAt(s, LastDash(s)) = {} THEN Unknown
              ELSE CHOOSE info \in IdentifiedAt(s, LastDash(s)) : TRUE
  <1> DEFINE I == {i \in 1..Len(Postfixes) : EndsWith(s, Postfixes[i].postfix)}
  <1>1. Len(Postfixes) = 5
    BY DEF Postfixes
  <1>2. I = {}
    BY <1>1
  <1>3. (IF I # {} THEN Min(I) ELSE 0) = 0
    BY <1>2
  <1> QED
    BY <1>3 DEF ParseValueName, SelectInSeq

\* The position of the last dash, if there is one.
LEMMA LastDashIsFound ==
    ASSUME NEW S, NEW s \in Seq(S)
    PROVE  \/ LastDash(s) = 0
           \/ /\ LastDash(s) \in 1..Len(s)
              /\ s[LastDash(s)] = "-"
              /\ \A i \in 1..Len(s) : s[i] = "-" => i <= LastDash(s)
  <1> DEFINE I == {i \in 1..Len(s) : s[i] = "-"}
  <1>1. Len(s) \in Nat /\ I \in SUBSET (1..Len(s))
    OBVIOUS
  <1>2. LastDash(s) = IF I # {} THEN Max(I) ELSE 0
    BY DEF LastDash, SelectLastInSeq
  <1>3. I /= {} => Max(I) \in I /\ \A y \in I : y <= Max(I)
    <2> HIDE DEF I
    <2> QED BY <1>1, LastPosition
  <1> QED BY <1>2, <1>3

\* A name with a dash has a last one.
LEMMA DashExists ==
    ASSUME NEW S, NEW s \in Seq(S), NEW i \in 1..Len(s), s[i] = "-"
    PROVE  LastDash(s) /= 0
  <1> DEFINE I == {j \in 1..Len(s) : s[j] = "-"}
  <1>1. Len(s) \in Nat /\ I \in SUBSET (1..Len(s)) /\ I /= {}
    OBVIOUS
  <1>2. LastDash(s) = IF I # {} THEN Max(I) ELSE 0
    BY DEF LastDash, SelectLastInSeq
  <1>3. Max(I) \in I
    <2> HIDE DEF I
    <2> QED BY <1>1, LastPosition
  <1> QED BY <1>1, <1>2, <1>3

\* ParseIndex takes the text of an index and nothing else.
LEMMA IndexIsParsed ==
    ASSUME NEW n \in Indices
    PROVE  ParseIndex(<<Text[n]>>) = {n}
  <1>1. <<Text[n]>> /= <<>> /\ Head(<<Text[n]>>) = Text[n]
    OBVIOUS
  <1>2. n \in DOMAIN Text /\ n <= MaxUInt32
    BY DEF Indices
  <1> QED BY <1>1, <1>2, StoulReadsText DEF ParseIndex

\* What ParseIndex reads was written as an index.
LEMMA ParsedIndexIsText ==
    ASSUME NEW q, NEW n \in ParseIndex(q)
    PROVE  n \in Indices /\ q = <<Text[n]>>
  BY StoulReadsText DEF ParseIndex, Indices

-----------------------------------------------------------------------------
(* What a server named is found.                                           *)

\* A prefix and what follows it.
LEMMA PrefixedName ==
    ASSUME NEW S, NEW prefix \in Seq(S), prefix /= <<>>, NEW T, NEW q \in Seq(T)
    PROVE  /\ prefix \o q \in Seq(S \cup T)
           /\ Len(prefix \o q) = Len(prefix) + Len(q)
           /\ Len(prefix) \in Nat \ {0} /\ Len(q) \in Nat
           /\ prefix \o q /= q
           /\ \A i \in 1..Len(q) : (prefix \o q)[Len(prefix) + i] = q[i]
           /\ SubSeq(prefix \o q, 1, Len(prefix)) = prefix
  <1>1. prefix \in Seq(S \cup T) /\ q \in Seq(S \cup T)
    BY SeqMonotonic
  <1>2. Len(prefix) \in Nat \ {0} /\ Len(q) \in Nat
    BY EmptySeq
  <1>3. /\ prefix \o q \in Seq(S \cup T)
        /\ Len(prefix \o q) = Len(prefix) + Len(q)
        /\ \A i \in 1 .. Len(prefix) + Len(q) : (prefix \o q)[i] =
              IF i <= Len(prefix) THEN prefix[i] ELSE q[i - Len(prefix)]
    BY <1>1, ConcatProperties
  <1>4. \A i \in 1..Len(q) : (prefix \o q)[Len(prefix) + i] = q[i]
    BY <1>2, <1>3
  <1>5. SubSeq(prefix \o q, 1, Len(prefix)) = prefix
    BY <1>1, SubSeqProperties, ConcatProperties, <1>2, <1>3, SeqEqual
  <1> QED BY <1>2, <1>3, <1>4, <1>5

\* The words that end names are sequences of tokens.
Words == {"STATE", "LOG", "MSG", "OUT", "BP", "VAR", "-", "INSTR", "INPUT", "REQ"}

\* The postfixes and identifiers are sequences of words.
LEMMA WordsAreSequences ==
    /\ \A k \in 1..5 : Postfixes[k].postfix \in Seq(Words)
    /\ \A k \in 1..2 :
          /\ Identifiers[k].postfix \in Seq(Words)
          /\ Len(Identifiers[k].postfix) = 2
          /\ Identifiers[k].postfix[1] = IF k = 1 THEN "INSTR" ELSE "VAR"
          /\ Identifiers[k].postfix[2] = "-"
    /\ DOMAIN Identifiers = 1..2
  <1>1. \A u \in Words : <<u>> \in Seq(Words)
    OBVIOUS
  <1>2. \A u, v \in Words : <<u, v>> \in Seq(Words)
    OBVIOUS
  <1>3. \A u, v, w \in Words : <<u, v, w>> \in Seq(Words)
    OBVIOUS
  <1>4. {"STATE", "LOG", "MSG", "OUT", "BP", "VAR", "-", "INSTR"} \subseteq Words
    BY DEF Words
  <1>5. \A k \in 1..5 : Postfixes[k].postfix \in Seq(Words)
    <2> SUFFICES ASSUME NEW k \in 1..5 PROVE Postfixes[k].postfix \in Seq(Words)
      OBVIOUS
    <2>1. k \in {1, 2, 3, 4, 5}
      OBVIOUS
    <2>2. /\ Postfixes[1].postfix = <<"STATE">>
          /\ Postfixes[2].postfix = <<"LOG">>
          /\ Postfixes[3].postfix = <<"MSG">>
          /\ Postfixes[4].postfix = <<"OUT">>
          /\ Postfixes[5].postfix = <<"BP", "-", "INSTR">>
      BY DEF Postfixes, kJobStateId, kLogEntryId, kMessageEntryId,
             kOutputValueEntryId, kBreakpointInstructionId
    <2>3. k \in 1..4 => \E u \in Words : Postfixes[k].postfix = <<u>>
      BY <1>4, <2>1, <2>2
    <2>4. k = 5 => Postfixes[k].postfix \in Seq(Words)
      BY <1>3, <1>4, <2>2
    <2>5. k \in 1..4 => Postfixes[k].postfix \in Seq(Words)
      BY <1>1, <2>3
    <2> QED BY <2>1, <2>4, <2>5
  <1>6. Identifiers[1].postfix = <<"INSTR", "-">> /\ Identifiers[2].postfix = <<"VAR", "-">>
    BY DEF Identifiers, kInstructionId, kVariableId
  <1>7. DOMAIN Identifiers = 1..2
    BY DEF Identifiers
  <1>8. \A k \in 1..2 : k = 1 \/ k = 2
    OBVIOUS
  <1>9. /\ Identifiers[1].postfix \in Seq(Words)
        /\ Identifiers[2].postfix \in Seq(Words)
    BY <1>2, <1>4, <1>6
  <1>10. ASSUME NEW k \in 1..2
         PROVE  /\ Len(Identifiers[k].postfix) = 2
                /\ Identifiers[k].postfix[1] = IF k = 1 THEN "INSTR" ELSE "VAR"
                /\ Identifiers[k].postfix[2] = "-"
    <2>1. CASE k = 1
      BY <1>6, <2>1
    <2>2. CASE k = 2
      BY <1>6, <2>2
    <2> QED BY <1>8, <2>1, <2>2
  <1> QED BY <1>5, <1>7, <1>8, <1>9, <1>10

\* A name made of a prefix and a postfix.
LEMMA PostfixedNameIsParsed ==
    ASSUME NEW S, NEW prefix \in Seq(S), prefix /= <<>>, NEW k \in 1..5
    PROVE  ParseValueName(prefix \o Postfixes[k].postfix)
              = ValueNameInfo(Postfixes[k].type, 0)
  <1> DEFINE q == Postfixes[k].postfix
             T == Words
             name == prefix \o q
  <1>2. q \in Seq(T)
    BY WordsAreSequences
  <1>3. /\ name \in Seq(S \cup T) /\ name /= q
        /\ Len(name) = Len(prefix) + Len(q)
        /\ Len(prefix) \in Nat \ {0} /\ Len(q) \in Nat
        /\ \A i \in 1..Len(q) : name[Len(prefix) + i] = q[i]
    <2> HIDE DEF q, T
    <2> QED BY <1>2, PrefixedName
  <1>4. EndsWith(name, q)
    <2> HIDE DEF q, T, name
    <2>1. \A i \in 1..Len(q) : name[Len(name) - Len(q) + i] = q[i]
      BY <1>3
    <2>2. EndsWith(name, q) <=>
             /\ Len(q) <= Len(name)
             /\ \A i \in 1..Len(q) : name[Len(name) - Len(q) + i] = q[i]
      <3> name \in Seq(S \cup T)
        BY <1>3
      <3> QED BY <1>2, EndsWithTokens
    <2> QED BY <1>3, <2>1, <2>2
  <1>5. name \in Seq(S \cup T)
    BY <1>3
  <1> HIDE DEF name, T
  <1>6. ParseValueName(name) =
           IF name = q THEN Unknown ELSE ValueNameInfo(Postfixes[k].type, 0)
    BY <1>4, <1>5, PostfixIsFound
  <1> QED BY <1>3, <1>6 DEF name

\* A name made of a prefix, an identifier and an index.
LEMMA IdentifiedNameIsParsed ==
    ASSUME NEW S, NEW prefix \in Seq(S), prefix /= <<>>,
           NEW k \in 1..2, NEW n \in Indices
    PROVE  ParseValueName(prefix \o Identifiers[k].postfix \o <<Text[n]>>)
              = ValueNameInfo(Identifiers[k].type, n)
  <1> DEFINE q == Identifiers[k].postfix
             T == Words
             U == {Text[n]}
             V == (S \cup T) \cup U
             front == prefix \o q
             name == front \o <<Text[n]>>
             m == Len(name)
  <1>1. q \in Seq(T)
    BY WordsAreSequences
  <1>2. Len(q) = 2 /\ q[1] = (IF k = 1 THEN "INSTR" ELSE "VAR") /\ q[2] = "-"
    BY WordsAreSequences
  <1>3. /\ front \in Seq(S \cup T) /\ front /= q
        /\ Len(front) = Len(prefix) + Len(q)
        /\ Len(prefix) \in Nat \ {0}
        /\ \A i \in 1..Len(q) : front[Len(prefix) + i] = q[i]
    <2> HIDE DEF q, T
    <2> QED BY <1>1, PrefixedName
  <1>4. /\ Len(front) = Len(prefix) + 2
        /\ front[Len(prefix) + 1] = (IF k = 1 THEN "INSTR" ELSE "VAR")
        /\ front[Len(prefix) + 2] = "-"
    <2> HIDE DEF q, front
    <2> QED BY <1>2, <1>3
  <1>5. front /= <<>>
    BY <1>3, <1>4
  <1>6. /\ name \in Seq(V) /\ m = Len(front) + 1
        /\ name[m] = Text[n]
        /\ SubSeq(name, 1, Len(front)) = front
    <2> DEFINE r == <<Text[n]>>
    <2>1. r \in Seq(U)
      OBVIOUS
    <2>2. Len(r) = 1 /\ r[1] = Text[n]
      OBVIOUS
    <2>3. front \in Seq(S \cup T) /\ Len(front) \in Nat
      BY <1>3
    <2> HIDE DEF r, front, T, U
    <2>4. /\ front \o r \in Seq((S \cup T) \cup U)
          /\ Len(front \o r) = Len(front) + Len(r)
          /\ \A i \in 1..Len(r) : (front \o r)[Len(front) + i] = r[i]
          /\ SubSeq(front \o r, 1, Len(front)) = front
      BY <1>5, <2>1, <2>3, PrefixedName
    <2> QED BY <2>2, <2>3, <2>4 DEF r
  <1>7. name[m - 1] = "-" /\ m \in Nat /\ m >= 4 /\ m - 1 = Len(front)
    <2> HIDE DEF front, name, q, m, V
    <2>1. m - 1 = Len(prefix) + 2 /\ m - 1 \in 1..Len(front)
      BY <1>3, <1>4, <1>6
    <2>2. SubSeq(name, 1, Len(front))[m - 1] = name[m - 1]
      BY <2>1, <1>6 DEF m
    <2> QED BY <1>3, <1>4, <1>6, <2>1, <2>2
  <1>8. SubSeq(name, m, m) = <<Text[n]>>
    <2> HIDE DEF front, name, V
    <2> DEFINE r == SubSeq(name, m, m)
               t == <<Text[n]>>
    <2>1. m \in 1..Len(name) /\ name[m] = Text[n] /\ name \in Seq(V)
      BY <1>6, <1>7
    <2>2. name[m] \in V
      BY <2>1
    <2>3. r \in Seq(V) /\ Len(r) = 1 /\ r[1] = name[m]
      BY <2>1, <2>2, SubSeqProperties
    <2>4. t \in Seq(V) /\ Len(t) = 1 /\ t[1] = Text[n]
      BY <2>1, <2>2
    <2> HIDE DEF r, t
    <2>5. r = t
      BY <2>1, <2>3, <2>4, SeqEqual
    <2> QED BY <2>5 DEF r, t
  <1>9. Text[n] \notin {"-", "INSTR", "STATE", "LOG", "MSG", "OUT"}
    BY StoulReadsText, NumbersAreNoWords DEF Indices
  <1> HIDE DEF front, name, m, q, T, U, V
  <1>11. \A i \in 1..5 : ~ EndsWith(name, Postfixes[i].postfix)
    BY <1>6, <1>9, PostfixTokens DEF m
  <1>12. LastDash(name) = m - 1
    <2>1. m - 1 \in 1..Len(name) /\ name[Len(name)] /= "-"
      BY <1>6, <1>7, <1>9 DEF m
    <2>2. \/ LastDash(name) = 0
          \/ /\ LastDash(name) \in 1..Len(name)
             /\ name[LastDash(name)] = "-"
             /\ \A i \in 1..Len(name) : name[i] = "-" => i <= LastDash(name)
      BY <1>6, LastDashIsFound
    <2>3. name \in Seq(V) /\ name[m - 1] = "-"
      BY <1>6, <1>7
    <2>4. LastDash(name) /= 0
      BY <2>1, <2>3, DashExists
    <2> QED BY <1>7, <2>1, <2>2, <2>3, <2>4 DEF m
  <1>13. ParseIndex(SubSeq(name, m - 1 + 1, Len(name))) = {n}
    <2>1. m - 1 + 1 = m /\ Len(name) = m
      BY <1>7 DEF m
    <2> QED BY <1>8, <2>1, IndexIsParsed
  <1>14. SubSeq(name, 1, m - 1) = front
    BY <1>6, <1>7
  <1>15. \A i \in 1..2 : EndsWith(front, Identifiers[i].postfix) <=> i = k
    <2> SUFFICES ASSUME NEW i \in 1..2
                 PROVE  EndsWith(front, Identifiers[i].postfix) <=> i = k
      OBVIOUS
    <2> DEFINE r == Identifiers[i].postfix
    <2>1. /\ r \in Seq(Words) /\ Len(r) = 2
          /\ r[1] = (IF i = 1 THEN "INSTR" ELSE "VAR") /\ r[2] = "-"
      BY WordsAreSequences
    <2> HIDE DEF r
    <2>2. EndsWith(front, r) <=>
             /\ Len(r) <= Len(front)
             /\ \A j \in 1..Len(r) : front[Len(front) - Len(r) + j] = r[j]
      <3>1. front \in Seq(S \cup T) /\ r \in Seq(Words)
        BY <1>3, <2>1
      <3> QED BY <3>1, EndsWithTokens
    <2>3. 1..2 = {1, 2} /\ k \in {1, 2} /\ i \in {1, 2}
      OBVIOUS
    <2> QED BY <1>3, <1>4, <2>1, <2>2, <2>3 DEF r
  <1>16. {i \in DOMAIN Identifiers :
             /\ EndsWith(front, Identifiers[i].postfix)
             /\ front /= Identifiers[i].postfix} = {k}
    BY <1>3, <1>15, WordsAreSequences DEF q
  <1>17. IdentifiedAt(name, m - 1) = {ValueNameInfo(Identifiers[k].type, n)}
    <2> DEFINE f == SubSeq(name, 1, m - 1)
               J == {i \in DOMAIN Identifiers :
                       /\ EndsWith(f, Identifiers[i].postfix)
                       /\ f /= Identifiers[i].postfix}
               N == ParseIndex(SubSeq(name, m - 1 + 1, Len(name)))
    <2>1. IdentifiedAt(name, m - 1) =
             {ValueNameInfo(Identifiers[i].type, idx) : i \in J, idx \in N}
      BY DEF IdentifiedAt
    <2>2. J = {k} /\ N = {n}
      BY <1>13, <1>14, <1>16
    <2> HIDE DEF J, N
    <2> QED BY <2>1, <2>2
  <1> QED BY <1>6, <1>11, <1>12, <1>17, IdentifierIsFound DEF name, front, q

\* The names, by the tables of ParseValueName.
LEMMA NamesByTable ==
    /\ \A prefix, k : k \in 1..5 =>
          NameFor(prefix, ValueNameInfo(Postfixes[k].type, 0))
             = prefix \o Postfixes[k].postfix
    /\ \A prefix, k, n : k \in 1..2 =>
          NameFor(prefix, ValueNameInfo(Identifiers[k].type, n))
             = prefix \o Identifiers[k].postfix \o <<Text[n]>>
  <1>1. ASSUME NEW prefix, NEW k \in 1..5
        PROVE  NameFor(prefix, ValueNameInfo(Postfixes[k].type, 0))
                  = prefix \o Postfixes[k].postfix
    <2>1. k = 1 \/ k = 2 \/ k = 3 \/ k = 4 \/ k = 5
      OBVIOUS
    <2> QED
      BY <2>1 DEF Postfixes, NameFor, ValueNameInfo, GetJobStatePVName,
         GetLogEntryName, GetMessageEntryName, GetOutputValueEntryName,
         GetBreakpointInstructionPVName
  <1>2. ASSUME NEW prefix, NEW k \in 1..2, NEW n
        PROVE  NameFor(prefix, ValueNameInfo(Identifiers[k].type, n))
                  = prefix \o Identifiers[k].postfix \o <<Text[n]>>
    <2>1. k = 1 \/ k = 2
      OBVIOUS
    <2> QED
      BY <2>1 DEF Identifiers, NameFor, ValueNameInfo, GetInstructionPVName,
         GetVariablePVName
  <1> QED BY <1>1, <1>2

\* The infos that names are made for are those of the two tables.
LEMMA InfosByTable ==
    /\ \A k \in 1..5 : ValueNameInfo(Postfixes[k].type, 0) \in Infos
    /\ \A k \in 1..2, n \in Indices : ValueNameInfo(Identifiers[k].type, n) \in Infos
    /\ \A info \in Infos :
          \/ \E k \in 1..5 : info = ValueNameInfo(Postfixes[k].type, 0)
          \/ \E k \in 1..2, n \in Indices : info = ValueNameInfo(Identifiers[k].type, n)
    /\ Unknown \notin Infos
  <1>1. /\ Postfixes[1].type = "kJobStatus"
        /\ Postfixes[2].type = "kLogEntry"
        /\ Postfixes[3].type = "kMessageEntry"
        /\ Postfixes[4].type = "kOutputValueEntry"
        /\ Postfixes[5].type = "kBreakpointInstruction"
        /\ Identifiers[1].type = "kInstruction"
        /\ Identifiers[2].type = "kVariable"
    BY DEF Postfixes, Identifiers
  <1>2. 1..5 = {1, 2, 3, 4, 5} /\ 1..2 = {1, 2}
    OBVIOUS
  <1>3. \A info : info \in Infos <=>
           \/ \E t \in {"kInstruction", "kVariable"}, n \in Indices :
                 info = ValueNameInfo(t, n)
           \/ \E t \in {"kLogEntry", "kMessageEntry", "kOutputValueEntry",
                        "kJobStatus", "kBreakpointInstruction"} :
                 info = ValueNameInfo(t, 0)
    BY DEF Infos, ValueNameTypes
  <1>4. \A t, n, u, m : ValueNameInfo(t, n) = ValueNameInfo(u, m) => t = u
    BY DEF ValueNameInfo
  <1>5. Unknown \notin Infos
    BY <1>3, <1>4 DEF Unknown
  <1>6. \A k \in 1..5 : ValueNameInfo(Postfixes[k].type, 0) \in Infos
    BY <1>1, <1>2, <1>3
  <1>7. \A k \in 1..2, n \in Indices : ValueNameInfo(Identifiers[k].type, n) \in Infos
    BY <1>1, <1>2, <1>3
  <1>8. ASSUME NEW info \in Infos
        PROVE  \/ \E k \in 1..5 : info = ValueNameInfo(Postfixes[k].type, 0)
               \/ \E k \in 1..2, n \in Indices :
                     info = ValueNameInfo(Identifiers[k].type, n)
    BY <1>1, <1>2, <1>3
  <1> QED BY <1>5, <1>6, <1>7, <1>8

\* ParseValueName finds what a name was made for.
THEOREM NameIsParsed ==
    ASSUME NEW S, NEW prefix \in Seq(S), prefix /= <<>>, NEW info \in Infos
    PROVE  ParseValueName(NameFor(prefix, info)) = info
  <1>1. CASE \E k \in 1..5 : info = ValueNameInfo(Postfixes[k].type, 0)
    BY <1>1, NamesByTable, PostfixedNameIsParsed
  <1>2. CASE \E k \in 1..2, n \in Indices : info = ValueNameInfo(Identifiers[k].type, n)
    <2>1. PICK k \in 1..2, n \in Indices : info = ValueNameInfo(Identifiers[k].type, n)
      BY <1>2
    <2>2. NameFor(prefix, info) = prefix \o Identifiers[k].postfix \o <<Text[n]>>
      BY <2>1, NamesByTable
    <2> QED BY <2>1, <2>2, IdentifiedNameIsParsed
  <1> QED BY <1>1, <1>2, InfosByTable

-----------------------------------------------------------------------------
(* What is found was named.                                                *)

\* A name that ends with q and has something before it has a prefix.
LEMMA FrontOfName ==
    ASSUME NEW S, NEW s \in Seq(S), NEW T, NEW q \in Seq(T), q /= <<>>,
           EndsWith(s, q), s /= q
    PROVE  /\ Len(s) - Len(q) \in 1..Len(s)
           /\ s = SubSeq(s, 1, Len(s) - Len(q)) \o q
  <1> DEFINE n == Len(s) - Len(q)
             p == SubSeq(s, 1, n)
  <1>1. /\ Len(q) <= Len(s)
        /\ \A i \in 1..Len(q) : s[n + i] = q[i]
    BY EndsWithTokens
  <1>2. Len(s) \in Nat /\ Len(q) \in Nat \ {0}
    BY EmptySeq
  <1>3. s \in Seq(S \cup T) /\ q \in Seq(S \cup T)
    BY SeqMonotonic
  <1>4. n /= 0
    <2> SUFFICES ASSUME n = 0 PROVE FALSE
      OBVIOUS
    <2>1. Len(s) = Len(q) /\ \A i \in 1..Len(s) : s[i] = q[i]
      BY <1>1, <1>2
    <2> QED BY <1>3, <2>1, SeqEqual
  <1>5. n \in 1..Len(s)
    BY <1>1, <1>2, <1>4
  <1> HIDE DEF n
  <1>6. /\ p \in Seq(S \cup T) /\ Len(p) = n
        /\ \A i \in 1..n : p[i] = s[i]
    <2>1. \A i \in 1..n : s[i] \in S \cup T
      BY <1>2, <1>3, <1>5, ElementOfSeq
    <2> QED BY <1>2, <1>5, <2>1, SubSeqProperties
  <1> HIDE DEF p
  <1>7. /\ p \o q \in Seq(S \cup T) /\ Len(p \o q) = n + Len(q)
        /\ \A i \in 1..n + Len(q) :
              (p \o q)[i] = IF i <= n THEN p[i] ELSE q[i - n]
    BY <1>3, <1>6, ConcatProperties
  <1>8. Len(s) = n + Len(q)
    BY <1>2 DEF n
  <1>9. \A i \in 1..Len(s) : s[i] = (p \o q)[i]
    <2> SUFFICES ASSUME NEW i \in 1..Len(s) PROVE s[i] = (p \o q)[i]
      OBVIOUS
    <2>1. n \in Nat /\ i \in 1..n + Len(q) /\ i \in Nat
      BY <1>2, <1>5, <1>8
    <2>2. CASE i <= n
      BY <1>6, <1>7, <2>1, <2>2
    <2>3. CASE ~ (i <= n)
      <3>1. i - n \in 1..Len(q) /\ n + (i - n) = i
        BY <1>2, <2>1, <2>3
      <3>2. s[n + (i - n)] = q[i - n]
        BY <1>1, <3>1
      <3>3. (p \o q)[i] = q[i - n]
        BY <1>7, <2>1, <2>3
      <3> QED BY <3>1, <3>2, <3>3
    <2> QED BY <2>2, <2>3
  <1>10. s = p \o q
    BY <1>3, <1>7, <1>8, <1>9, SeqEqual
  <1> QED BY <1>5, <1>10 DEF n, p

\* Parts of a sequence.
LEMMA FrontAndRest ==
    ASSUME NEW S, NEW s \in Seq(S), NEW n \in 0..Len(s)
    PROVE  s = SubSeq(s, 1, n) \o SubSeq(s, n + 1, Len(s))
  <1> DEFINE p == SubSeq(s, 1, n)
             q == SubSeq(s, n + 1, Len(s))
             m == Len(s)
  <1>1. m \in Nat /\ n \in Nat /\ n <= m /\ \A i \in 1..m : s[i] \in S
    BY ElementOfSeq
  <1>2. p \in Seq(S) /\ Len(p) = n /\ \A i \in 1..n : p[i] = s[i]
    BY <1>1, SubSeqProperties
  <1>3. /\ q \in Seq(S) /\ Len(q) = m - n
        /\ \A i \in 1..m - n : q[i] = s[n + i]
    <2> HIDE DEF m
    <2>1. \A i \in (n + 1)..m : s[i] \in S
      BY <1>1
    <2>2. /\ SubSeq(s, n + 1, m) \in Seq(S)
          /\ Len(SubSeq(s, n + 1, m)) = IF n + 1 <= m THEN m - (n + 1) + 1 ELSE 0
          /\ \A i \in 1 .. m - (n + 1) + 1 : SubSeq(s, n + 1, m)[i] = s[n + 1 + i - 1]
      BY <1>1, <2>1, SubSeqProperties
    <2>3. m - (n + 1) + 1 = m - n
      BY <1>1
    <2>4. ASSUME NEW i \in 1..m - n PROVE SubSeq(s, n + 1, m)[i] = s[n + i]
      <3>1. n + 1 + i - 1 = n + i
        BY <1>1
      <3> QED BY <2>2, <2>3, <3>1
    <2> QED BY <1>1, <2>2, <2>4 DEF m
  <1> HIDE DEF p, q, m
  <1>4. /\ p \o q \in Seq(S) /\ Len(p \o q) = m
        /\ \A i \in 1..m : (p \o q)[i] = IF i <= n THEN p[i] ELSE q[i - n]
    <2>1. Len(p) + Len(q) = m
      BY <1>1, <1>2, <1>3
    <2> QED BY <1>2, <1>3, <2>1, ConcatProperties
  <1>5. ASSUME NEW i \in 1..m PROVE s[i] = (p \o q)[i]
    <2>1. CASE i <= n
      BY <1>1, <1>2, <1>4, <2>1
    <2>2. CASE ~ (i <= n)
      <3>1. i - n \in 1..m - n /\ n + (i - n) = i
        BY <1>1, <2>2
      <3>2. q[i - n] = s[n + (i - n)]
        BY <1>3, <3>1
      <3> QED BY <1>4, <2>2, <3>1, <3>2
    <2> QED BY <2>1, <2>2
  <1> QED BY <1>4, <1>5, SeqEqual DEF p, q, m

\* The front of a front.
LEMMA SubSeqOfFront ==
    ASSUME NEW S, NEW s \in Seq(S), NEW n \in 0..Len(s), NEW m \in 1..n
    PROVE  SubSeq(SubSeq(s, 1, n), 1, m) = SubSeq(s, 1, m)
  <1>1. Len(s) \in Nat /\ 1 \in 1..Len(s) /\ n \in 1..Len(s)
    OBVIOUS
  <1>2. SubSeq(SubSeq(s, 1, n), 1, m) = SubSeq(s, 1 + 1 - 1, 1 + m - 1)
    BY <1>1, SubSeqOfSubSeq
  <1>3. 1 + 1 - 1 = 1 /\ 1 + m - 1 = m
    OBVIOUS
  <1> QED BY <1>2, <1>3

\* What ParseValueName finds is what the name was made for.
LEMMA ParsedIsNamed ==
    ASSUME NEW S, NEW s \in Seq(S), ParseValueName(s) /= Unknown
    PROVE  /\ ParseValueName(s) \in Infos
           /\ \E n \in 1..Len(s) : s = NameFor(SubSeq(s, 1, n), ParseValueName(s))
  <1>1. CASE \E k \in 1..5 : EndsWith(s, Postfixes[k].postfix)
    <2>1. PICK k \in 1..5 : EndsWith(s, Postfixes[k].postfix)
      BY <1>1
    <2> DEFINE q == Postfixes[k].postfix
    <2>2. ParseValueName(s) =
             IF s = q THEN Unknown ELSE ValueNameInfo(Postfixes[k].type, 0)
      BY <2>1, PostfixIsFound
    <2>3. q \in Seq(Words) /\ q /= <<>>
      <3>1. k = 1 \/ k = 2 \/ k = 3 \/ k = 4 \/ k = 5
        OBVIOUS
      <3>2. q /= <<>>
        BY <3>1 DEF Postfixes, kJobStateId, kLogEntryId, kMessageEntryId,
                    kOutputValueEntryId, kBreakpointInstructionId
      <3> QED BY <3>2, WordsAreSequences
    <2>4. EndsWith(s, q)
      BY <2>1
    <2>5. ParseValueName(s) = ValueNameInfo(Postfixes[k].type, 0) /\ s /= q
      BY <2>2
    <2>6. \A p : NameFor(p, ParseValueName(s)) = p \o q
      BY <2>5, NamesByTable
    <2> HIDE DEF q
    <2>7. Len(s) - Len(q) \in 1..Len(s) /\ s = SubSeq(s, 1, Len(s) - Len(q)) \o q
      BY <2>3, <2>4, <2>5, FrontOfName
    <2> QED BY <2>5, <2>6, <2>7, InfosByTable
  <1>2. CASE \A k \in 1..5 : ~ EndsWith(s, Postfixes[k].postfix)
    <2> DEFINE pos == LastDash(s)
               front == SubSeq(s, 1, pos)
    <2>1. /\ IdentifiedAt(s, pos) /= {}
          /\ ParseValueName(s) \in IdentifiedAt(s, pos)
      BY <1>2, IdentifierIsFound
    <2>2. PICK k \in DOMAIN Identifiers, n \in ParseIndex(SubSeq(s, pos + 1, Len(s))) :
             /\ EndsWith(front, Identifiers[k].postfix)
             /\ front /= Identifiers[k].postfix
             /\ ParseValueName(s) = ValueNameInfo(Identifiers[k].type, n)
      BY <2>1 DEF IdentifiedAt
    <2> DEFINE q == Identifiers[k].postfix
               m == Len(front) - Len(q)
    <2>3. k \in 1..2 /\ q \in Seq(Words) /\ Len(q) = 2 /\ q /= <<>>
      BY WordsAreSequences
    <2>4. n \in Indices /\ SubSeq(s, pos + 1, Len(s)) = <<Text[n]>>
      BY ParsedIndexIsText
    <2>5. Len(s) \in Nat /\ pos \in 0..Len(s)
      BY LastDashIsFound
    <2>6. \A i \in 1..Len(s) : s[i] \in S
      BY ElementOfSeq
    <2> HIDE DEF pos
    <2>7. front \in Seq(S) /\ Len(front) = pos
      BY <2>5, <2>6, SubSeqProperties
    <2>8. s = front \o <<Text[n]>>
      <3>1. s = front \o SubSeq(s, pos + 1, Len(s))
        BY <2>4, <2>5, FrontAndRest
      <3> QED BY <2>4, <3>1
    <2>9. m \in 1..pos /\ front = SubSeq(front, 1, m) \o q
      <3> HIDE DEF front, q
      <3> QED BY <2>2, <2>3, <2>7, FrontOfName DEF q
    <2>10. SubSeq(front, 1, m) = SubSeq(s, 1, m)
      <3> HIDE DEF m
      <3> QED BY <2>5, <2>6, <2>9, SubSeqOfFront
    <2>11. NameFor(SubSeq(s, 1, m), ParseValueName(s)) = s
      <3>1. NameFor(SubSeq(s, 1, m), ParseValueName(s))
               = SubSeq(s, 1, m) \o q \o <<Text[n]>>
        BY <2>2, <2>3, NamesByTable
      <3>2. SubSeq(s, 1, m) \o q = front
        BY <2>9, <2>10
      <3> HIDE DEF front, q, m
      <3> QED BY <2>8, <3>1, <3>2
    <2>12. ParseValueName(s) \in Infos
      BY <2>2, <2>3, <2>4, InfosByTable
    <2>13. m \in 1..Len(s)
      <3> HIDE DEF m
      <3> QED BY <2>5, <2>9
    <2> HIDE DEF m
    <2> QED BY <2>11, <2>12, <2>13
  <1> QED BY <1>1, <1>2

-----------------------------------------------------------------------------
(* The theorem.                                                            *)

\* A name whose last token is neither the end of a postfix nor an index.
LEMMA OtherEndIsUnknown ==
    ASSUME NEW S, NEW s \in Seq(S), s /= <<>>, s[Len(s)] \in {"INPUT", "REQ"}
    PROVE  ParseValueName(s) = Unknown
  <1>1. \A k \in 1..5 : ~ EndsWith(s, Postfixes[k].postfix)
    BY PostfixTokens
  <1> DEFINE pos == LastDash(s)
             m == Len(s)
             rest == SubSeq(s, pos + 1, m)
  <1>2. m \in Nat \ {0} /\ pos \in 0..m /\ \A i \in 1..m : s[i] \in S
    BY EmptySeq, LastDashIsFound, ElementOfSeq
  <1> HIDE DEF pos, m
  <1>3. ASSUME NEW n \in ParseIndex(rest) PROVE FALSE
    <2>1. n \in Indices /\ rest = <<Text[n]>>
      BY ParsedIndexIsText
    <2>2. Len(rest) = 1 /\ rest[1] = Text[n]
      <3> HIDE DEF rest
      <3> QED BY <2>1
    <2>3. \A i \in (pos + 1)..m : s[i] \in S
      BY <1>2
    <2>4. /\ Len(rest) = IF pos + 1 <= m THEN m - (pos + 1) + 1 ELSE 0
          /\ \A i \in 1 .. m - (pos + 1) + 1 : rest[i] = s[pos + 1 + i - 1]
      BY <1>2, <2>3, SubSeqProperties
    <2> HIDE DEF rest
    <2>5. pos + 1 = m
      <3>1. 1 = IF pos + 1 <= m THEN m - (pos + 1) + 1 ELSE 0
        BY <2>2, <2>4
      <3>2. pos \in Int /\ m \in Int
        BY <1>2
      <3> QED BY <3>1, <3>2
    <2>6. rest[1] = s[pos + 1 + 1 - 1] /\ pos + 1 + 1 - 1 = m
      BY <1>2, <2>4, <2>5
    <2>7. Text[n] = s[m]
      BY <2>2, <2>6
    <2> QED BY <2>1, <2>7, StoulReadsText, NumbersAreNoWords DEF Indices, m
  <1>4. IdentifiedAt(s, pos) = {}
    BY <1>3 DEF IdentifiedAt, m
  <1> QED BY <1>1, <1>4, IdentifierIsFound DEF pos

\* Such are the names for the user input.
LEMMA InputNamesAreUnknown ==
    ASSUME NEW S, NEW prefix \in Seq(S), prefix /= <<>>,
           NEW s \in InputNames(prefix)
    PROVE  ParseValueName(s) = Unknown
  <1> DEFINE q == kInputServerName
             r == kInputRequestName
             W == {"INPUT", "-", "REQ"}
             V == (S \cup W) \cup W
             server_name == prefix \o q
             request_name == server_name \o r
  <1>1. q \in Seq(W) /\ r \in Seq(W)
    BY DEF kInputServerName, kInputRequestName
  <1>2. /\ Len(q) = 1 /\ q[1] = "INPUT"
        /\ Len(r) = 2 /\ r[2] = "REQ"
    BY DEF kInputServerName, kInputRequestName
  <1>3. s = server_name \/ s = request_name
    BY DEF InputNames, GetInputServerName, GetInputRequestPVName
  <1> HIDE DEF q, r, W
  <1>4. /\ server_name \in Seq(S \cup W)
        /\ Len(server_name) = Len(prefix) + Len(q)
        /\ Len(prefix) \in Nat \ {0}
        /\ \A i \in 1..Len(q) : server_name[Len(prefix) + i] = q[i]
    BY <1>1, PrefixedName
  <1> HIDE DEF server_name
  <1>5. server_name /= <<>> /\ Len(server_name) \in Nat
    BY <1>2, <1>4
  <1>6. /\ request_name \in Seq(V)
        /\ Len(request_name) = Len(server_name) + Len(r)
        /\ \A i \in 1..Len(r) : request_name[Len(server_name) + i] = r[i]
    <2>1. server_name \in Seq(S \cup W)
      BY <1>4
    <2> QED BY <1>1, <1>5, <2>1, PrefixedName
  <1> HIDE DEF request_name, V
  <1>7. server_name[Len(server_name)] = "INPUT"
    BY <1>2, <1>4
  <1>8. request_name /= <<>> /\ request_name[Len(request_name)] = "REQ"
    BY <1>2, <1>5, <1>6
  <1>9. ParseValueName(server_name) = Unknown
    BY <1>4, <1>5, <1>7, OtherEndIsUnknown
  <1>10. ParseValueName(request_name) = Unknown
    BY <1>6, <1>8, OtherEndIsUnknown
  <1> QED BY <1>3, <1>9, <1>10

-----------------------------------------------------------------------------
(* The theorem.                                                            *)

\* Of any name that is built of tokens, ParseValueName finds what it was made
\* for, if it was made for anything.
LEMMA ParsingIsInverse ==
    ASSUME val_name \in Seq(Tokens)
    PROVE  ParseInvertsNaming
  <1> DEFINE prefixes == {SubSeq(val_name, 1, n) : n \in 1..Len(val_name)}
             named == {info \in Infos :
                          \E prefix \in prefixes : val_name = NameFor(prefix, info)}
             parsed == ParseValueName(val_name)
  <1>1. ASSUME NEW prefix \in prefixes
        PROVE  prefix \in Seq(Tokens) /\ prefix /= <<>>
    <2>1. PICK n \in 1..Len(val_name) : prefix = SubSeq(val_name, 1, n)
      OBVIOUS
    <2>2. n \in Int /\ 1 <= n /\ \A i \in 1..n : val_name[i] \in Tokens
      BY ElementOfSeq
    <2>3. prefix \in Seq(Tokens) /\ Len(prefix) = n - 1 + 1
      BY <2>1, <2>2, SubSeqProperties
    <2> QED BY <2>2, <2>3
  <1>2. ASSUME NEW info \in named PROVE info = parsed
    <2>1. PICK prefix \in prefixes : val_name = NameFor(prefix, info)
      OBVIOUS
    <2> QED BY <1>1, <2>1, NameIsParsed
  <1>3. ASSUME parsed /= Unknown PROVE parsed \in named
    BY <1>3, ParsedIsNamed
  <1>4. Unknown \notin named
    BY InfosByTable
  <1>5. named = {parsed} \ {Unknown}
    <2> HIDE DEF named, parsed
    <2> QED BY <1>2, <1>3, <1>4
  <1>6. ASSUME val_name \in UNION {InputNames(prefix) : prefix \in prefixes}
        PROVE  named = {}
    <2>1. PICK prefix \in prefixes : val_name \in InputNames(prefix)
      BY <1>6
    <2>2. parsed = Unknown
      <3>1. prefix \in Seq(Tokens) /\ prefix /= <<>>
        BY <1>1
      <3> QED BY <2>1, <3>1, InputNamesAreUnknown
    <2> HIDE DEF named, parsed
    <2> QED BY <1>5, <2>2
  <1> QED BY <1>5, <1>6 DEF ParseInvertsNaming

\* ParseValueName inverts the functions that make names, and does nothing else,
\* for names of any length and any tokens.
THEOREM ParsingInvertsNaming == NameSpec => []ParseInvertsNaming
  <1>1. NameInit => val_name \in Seq(Tokens)
    BY DEF NameInit
  <1>2. val_name \in Seq(Tokens) /\ [NameNext]_val_name => (val_name \in Seq(Tokens))'
    BY DEF NameNext, Extend
  <1>3. val_name \in Seq(Tokens) => ParseInvertsNaming
    BY ParsingIsInverse
  <1> QED BY <1>1, <1>2, <1>3, PTL DEF NameSpec

=============================================================================
