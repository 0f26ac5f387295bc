---------------------------- MODULE StorageProofs ----------------------------
(***************************************************************************)
(* What a host stores and loads: save states read back what was stored or  *)
(* are refused, and a loaded file leaves in memory what its records say.   *)
(***************************************************************************)
EXTENDS Host, FiniteSetTheorems, TLAPS

(***************************************************************************)
(* Save states.  Offset[i] is where field i begins.                        *)
(***************************************************************************)
Offset == <<8, 42, 76, 82, 86, 92, 98, 104, 110, 116, 122, 130, 140, 146>>

\* The thirteen fields of the format, MODEL last, and the size of a whole state.
LEMMA SaveOrder ==
    /\ Len(S!Order) = 13 /\ S!Need = 146 /\ S!HeaderSize = 8
    /\ \A i \in 1..13 : S!Order[i] \in S!Tags
    /\ S!Order[13] = "MODEL" /\ \A i \in 1..12 : S!Order[i] # "MODEL"
    /\ "UNKNOWN" \notin S!Tags
  BY DEF S!Order, S!Tags, S!Payload, S!Need, S!HeaderSize

\* Every tag of the format has one place in the order.
LEMMA SaveTags ==
    /\ \A t \in S!Tags : \E i \in 1..13 : S!Order[i] = t
    /\ \A i, j \in 1..13 : S!Order[i] = S!Order[j] => i = j
  <1>1. \A t \in S!Tags : \E i \in 1..13 : S!Order[i] = t
    BY DEF S!Order, S!Tags, S!Payload
  <1>2. \A i, j \in 1..13 : S!Order[i] = S!Order[j] => i = j
    BY DEF S!Order
  <1>3. QED
    BY <1>1, <1>2

\* A field follows the one before it: two bytes of tag and length, then its payload.
LEMMA SaveOffsets ==
    /\ Offset[1] = 8 /\ Offset[14] = 146
    /\ \A i \in 1..14 : Offset[i] \in Nat
    /\ \A i \in 1..13 : S!Payload[S!Order[i]] \in Nat \ {0}
    /\ \A i \in 1..13 : Offset[i + 1] = Offset[i] + 2 + S!Payload[S!Order[i]]
    /\ \A i \in 1..13 : Offset[i + 1] <= 146 /\ Offset[i] <= 140
  <1>1. /\ Offset[1] = 8 /\ Offset[14] = 146
        /\ \A i \in 1..14 : Offset[i] \in Nat
        /\ \A i \in 1..13 : Offset[i + 1] <= 146 /\ Offset[i] <= 140
    BY DEF Offset
  <1>2. \A i \in 1..13 : S!Payload[S!Order[i]] \in Nat \ {0}
    BY DEF S!Order, S!Payload
  <1>3. \A i \in 1..13 : Offset[i + 1] = Offset[i] + 2 + S!Payload[S!Order[i]]
    BY DEF S!Order, S!Payload, Offset
  <1>4. QED
    BY <1>1, <1>2, <1>3

\* What InsertAt returns.
IsInsertion(new, T, s, i, e) ==
    /\ new \in Seq(T) /\ Len(new) = Len(s) + 1 /\ new[i] = e
    /\ \A k \in 1 .. i - 1 : new[k] = s[k]
    /\ \A k \in i + 1 .. Len(s) + 1 : new[k] = s[k - 1]

\* InsertAt makes an insertion.
LEMMA Inserted ==
    ASSUME NEW T, NEW s \in Seq(T), NEW i \in 1 .. Len(s) + 1, NEW e \in T, NEW new,
           new = S!InsertAt(s, i, e)
    PROVE  IsInsertion(new, T, s, i, e)
  <1>1. i \in Int /\ Len(s) \in Nat
    OBVIOUS
  <1>2. PICK a : a = SubSeq(s, 1, i - 1)
    OBVIOUS
  <1>3. a \in Seq(T) /\ Len(a) = i - 1 /\ \A k \in 1 .. i - 1 : a[k] = s[k]
    BY <1>1, <1>2
  <1>4. PICK b : b = SubSeq(s, i, Len(s))
    OBVIOUS
  <1>5. b \in Seq(T) /\ Len(b) = Len(s) + 1 - i /\ \A k \in 1 .. Len(s) + 1 - i : b[k] = s[i + k - 1]
    BY <1>1, <1>4
  <1>6. new = a \o <<e>> \o b
    BY <1>2, <1>4 DEF S!InsertAt
  <1>7. PICK c : c = a \o <<e>>
    OBVIOUS
  <1>8. c \in Seq(T) /\ Len(c) = i /\ c[i] = e /\ \A k \in 1 .. i - 1 : c[k] = a[k]
    BY <1>1, <1>3, <1>7
  <1>9. new = c \o b
    BY <1>6, <1>7
  <1>10. new \in Seq(T) /\ Len(new) = Len(s) + 1
    BY <1>1, <1>5, <1>8, <1>9
  <1>11. \A k \in 1..i : new[k] = c[k]
    BY <1>1, <1>5, <1>8, <1>9
  <1>12. \A k \in i + 1 .. Len(s) + 1 : new[k] = b[k - i]
    BY <1>1, <1>5, <1>8, <1>9
  <1>13. \A k \in i + 1 .. Len(s) + 1 : new[k] = s[k - 1]
    BY <1>1, <1>5, <1>12
  <1>14. \A k \in 1 .. i - 1 : new[k] = s[k]
    BY <1>1, <1>3, <1>8, <1>11
  <1>15. QED
    BY <1>1, <1>8, <1>10, <1>11, <1>13, <1>14 DEF IsInsertion

\* Field i of the context that was serialised.
FieldSet == [tag : S!Tags \cup {"UNKNOWN"}, len : Nat, value : Values]
Field(i) == [tag |-> S!Order[i], len |-> S!Payload[S!Order[i]], value |-> stored[S!Order[i]]]

\* The stored fields: whole, with a wrong length byte in field j, with a model
\* number that is none, with an unknown field of n bytes in place j.
Whole == Len(fields) = 13 /\ \A i \in 1..13 : fields[i] = Field(i)
WrongLength(j) ==
    /\ Len(fields) = 13 /\ \A i \in 1..13 : i # j => fields[i] = Field(i)
    /\ fields[j].tag = S!Order[j] /\ fields[j].len # S!Payload[S!Order[j]]
WrongModel ==
    /\ Len(fields) = 13 /\ \A i \in 1..12 : fields[i] = Field(i)
    /\ fields[13].tag = "MODEL" /\ fields[13].value > S!MaxModel
WithUnknown(j, n) ==
    /\ Len(fields) = 14 /\ fields[j] = [tag |-> "UNKNOWN", len |-> n, value |-> 0]
    /\ \A i \in 1 .. j - 1 : fields[i] = Field(i)
    /\ \A i \in j + 1 .. 14 : fields[i] = Field(i - 1)

\* The context while m68k_deserialize has applied k fields.
Applied(k) ==
    \A i \in 1..13 : cpu[S!Order[i]] = IF i <= k THEN stored[S!Order[i]] ELSE before[S!Order[i]]
Parsing == next \in 1..14 /\ p = Offset[next] /\ Applied(next - 1)
ParsingUnknown(j, n) ==
    IF next <= j THEN next \in 1..14 /\ p = Offset[next] /\ Applied(next - 1)
    ELSE next \in 2..15 /\ p = Offset[next - 1] + 2 + n /\ Applied(next - 2)

IntactLayout == Whole /\ length = 146 /\ (call = "deserialize" => Parsing)
CutLayout == Whole /\ length < 146 /\ (call = "deserialize" => Parsing)
LengthLayout ==
    /\ length = 146
    /\ \E j \in 1..13 : WrongLength(j) /\ (call = "deserialize" => Parsing /\ next <= j)
ModelLayout == WrongModel /\ length = 146 /\ (call = "deserialize" => Parsing /\ next <= 13)
NewerLayout ==
    \E j \in 1..14, n \in {0, 3} :
        /\ WithUnknown(j, n) /\ length = 148 + n
        /\ call = "deserialize" => ParsingUnknown(j, n)

Layout ==
    /\ damage \in {"none", "header"} => IntactLayout
    /\ damage = "cut" => CutLayout
    /\ damage = "length" => LengthLayout
    /\ damage = "model" => ModelLayout
    /\ damage = "newer" => NewerLayout

\* The calls: what the pointer and the buffer are while one runs and between two.
Calls ==
    /\ damage \in {"none", "header", "cut", "length", "model", "newer"}
    /\ (header = "good") <=> (damage # "header")
    /\ call = "none" => p = 0 /\ next = 1
    /\ call # "none" => outcome = "none"
    /\ call = "deserialize" => header = "good" /\ fields # <<>>
    /\ fields = <<>> => damage = "none"
    /\ call = "serialize" => /\ damage = "none" /\ stored = cpu
                             /\ next \in 1..14 /\ Len(fields) = next - 1 /\ p = Offset[next]
                             /\ \A i \in 1 .. next - 1 : fields[i] = Field(i)

SaveInv ==
    /\ S!TypeOK /\ fields \in Seq(FieldSet)
    /\ Calls
    /\ call # "serialize" /\ fields # <<>> => Layout
    /\ RestoresOrRefuses /\ AppliedIsPrefix

\* The invariant is about the save-state variables alone.
LEMMA SaveUnchanged == SaveInv /\ UNCHANGED saveVars => SaveInv'
  <1> SUFFICES ASSUME SaveInv, UNCHANGED saveVars PROVE SaveInv'
    OBVIOUS
  <1>1. S!TypeOK'
    BY DEF SaveInv, saveVars, S!TypeOK
  <1>2. Calls' /\ (fields \in Seq(FieldSet))'
    BY DEF SaveInv, saveVars, Calls, Field
  <1>3. Layout = Layout'
    BY DEF saveVars, Layout, IntactLayout, CutLayout, LengthLayout, ModelLayout, NewerLayout, Whole,
           WrongLength, WrongModel, WithUnknown, Parsing, ParsingUnknown, Applied, Field
  <1>4. RestoresOrRefuses' /\ AppliedIsPrefix'
    BY DEF SaveInv, saveVars, RestoresOrRefuses, AppliedIsPrefix, S!RoundTrip, S!DamageRefused,
           S!AppliedIsPrefix
  <1>5. QED
    BY <1>1, <1>2, <1>3, <1>4 DEF SaveInv, saveVars

\* The initial state satisfies the invariant.
LEMMA SaveStart == HostAssumption /\ S!Init => SaveInv
  <1> SUFFICES ASSUME HostAssumption, S!Init PROVE SaveInv
    OBVIOUS
  <1>1. S!TypeOK
    <2>1. cpu = [t \in S!Tags |-> 0] /\ 0 \in Values /\ MaxSaves \in Nat
      BY DEF HostAssumption, S!SaveStateAssumption, S!Init
    <2>2. cpu \in [S!Tags -> Values] /\ cpu["MODEL"] = 0
      BY <2>1, SaveOrder
    <2>3. cpu \in S!Context
      BY <2>2 DEF S!Context, S!MaxModel
    <2>4. latched \in BOOLEAN
      BY Zenon DEF S!Init
    <2>5. fields = <<>> /\ next \in 1 .. Len(fields) + 1 /\ \A i \in DOMAIN fields : FALSE
      BY DEF S!Init
    <2>6. length \in Nat /\ p \in Nat /\ saves \in 0..MaxSaves
      BY <2>1 DEF S!Init
    <2>7. stored \in S!Context /\ before \in S!Context
      BY <2>3 DEF S!Init
    <2>8. QED
      BY <2>3, <2>4, <2>5, <2>6, <2>7 DEF S!Init, S!TypeOK
  <1>2. Calls /\ fields \in Seq(FieldSet) /\ fields = <<>>
    BY DEF S!Init, Calls
  <1>3. RestoresOrRefuses /\ AppliedIsPrefix
    BY DEF S!Init, RestoresOrRefuses, AppliedIsPrefix, S!RoundTrip, S!DamageRefused, S!AppliedIsPrefix
  <1>4. QED
    BY <1>1, <1>2, <1>3 DEF SaveInv

\* A call that ends, or an event between two calls, leaves the layout alone.
LEMMA LayoutKept ==
    ASSUME Layout, UNCHANGED <<fields, length, stored, damage>>, call' # "deserialize"
    PROVE  Layout'
  <1>1. Field(0)' = Field(0) /\ \A i : Field(i)' = Field(i)
    BY DEF Field
  <1>2. Whole = Whole' /\ WrongModel = WrongModel'
    BY <1>1 DEF Whole, WrongModel
  <1>3. \A j : WrongLength(j) = WrongLength(j)'
    BY <1>1 DEF WrongLength
  <1>4. \A j, n : WithUnknown(j, n) = WithUnknown(j, n)'
    BY <1>1 DEF WithUnknown
  <1>5. damage \in {"none", "header"} => IntactLayout'
    BY <1>2 DEF Layout, IntactLayout
  <1>6. /\ damage = "cut" => CutLayout'
        /\ damage = "model" => ModelLayout'
    BY <1>2 DEF Layout, CutLayout, ModelLayout
  <1>7. damage = "length" => LengthLayout'
    BY <1>3 DEF Layout, LengthLayout
  <1>8. damage = "newer" => NewerLayout'
    BY <1>4 DEF Layout, NewerLayout
  <1>9. QED
    BY <1>5, <1>6, <1>7, <1>8 DEF Layout

\* m68k_deserialize begins behind the header with nothing applied.
LEMMA LayoutBegun ==
    ASSUME Layout, UNCHANGED <<fields, length, stored, damage>>, call' = "deserialize",
           p' = 8, next' = 1, before' = cpu, cpu' = cpu
    PROVE  Layout'
  <1>1. \A i : Field(i)' = Field(i)
    BY DEF Field
  <1>2. Whole = Whole' /\ WrongModel = WrongModel'
    BY <1>1 DEF Whole, WrongModel
  <1>3. \A j : WrongLength(j) = WrongLength(j)'
    BY <1>1 DEF WrongLength
  <1>4. \A j, n : WithUnknown(j, n) = WithUnknown(j, n)'
    BY <1>1 DEF WithUnknown
  <1>5. Parsing'
    BY SaveOffsets DEF Parsing, Applied
  <1>6. \A j \in 1..14 : \A n : ParsingUnknown(j, n)'
    BY <1>5 DEF Parsing, ParsingUnknown
  <1>7. damage \in {"none", "header"} => IntactLayout'
    BY <1>2, <1>5 DEF Layout, IntactLayout
  <1>8. /\ damage = "cut" => CutLayout'
        /\ damage = "model" => ModelLayout'
    BY <1>2, <1>5 DEF Layout, CutLayout, ModelLayout
  <1>9. damage = "length" => LengthLayout'
    BY <1>3, <1>5 DEF Layout, LengthLayout
  <1>10. damage = "newer" => NewerLayout'
    BY <1>4, <1>6 DEF Layout, NewerLayout
  <1>11. QED
    BY <1>7, <1>8, <1>9, <1>10 DEF Layout

\* An outcome of nothing says nothing.
LEMMA NoOutcome ==
    ASSUME outcome' \in {"none", "nospace"}
    PROVE  RestoresOrRefuses' /\ AppliedIsPrefix'
  BY DEF RestoresOrRefuses, AppliedIsPrefix, S!RoundTrip, S!DamageRefused, S!AppliedIsPrefix

\* The type of the next state, from the types of its variables.
LEMMA SaveTypes ==
    ASSUME cpu' \in S!Context, stored' \in S!Context, before' \in S!Context, latched' \in BOOLEAN,
           header' \in {"good", "magic", "version"}, length' \in Nat, p' \in Nat,
           fields' \in Seq(FieldSet), next' \in 1 .. Len(fields') + 1, saves' \in 0..MaxSaves,
           call' \in {"none", "serialize", "deserialize"},
           outcome' \in {"none", "written", "nospace", "restored", "refused"}
    PROVE  S!TypeOK'
  <1>1. \A i \in DOMAIN fields' : fields'[i].tag \in S!Tags \cup {"UNKNOWN"}
    <2>1. \A f \in FieldSet : f.tag \in S!Tags \cup {"UNKNOWN"}
      BY DEF FieldSet
    <2>2. \A i \in DOMAIN fields' : fields'[i] \in FieldSet
      OBVIOUS
    <2>3. QED
      BY <2>1, <2>2
  <1>2. QED
    BY <1>1 DEF S!TypeOK

\* What the type invariant says of the state that most events leave alone.
LEMMA SaveTyped ==
    ASSUME SaveInv
    PROVE  /\ cpu \in S!Context /\ stored \in S!Context /\ before \in S!Context /\ latched \in BOOLEAN
           /\ header \in {"good", "magic", "version"} /\ length \in Nat /\ p \in Nat
           /\ fields \in Seq(FieldSet) /\ Len(fields) \in Nat /\ next \in 1 .. Len(fields) + 1
           /\ saves \in 0..MaxSaves
           /\ call \in {"none", "serialize", "deserialize"}
           /\ outcome \in {"none", "written", "nospace", "restored", "refused"}
  BY DEF SaveInv, S!TypeOK

\* A context has a value for every tag, and a model number.
LEMMA ContextFacts ==
    ASSUME NEW c \in S!Context
    PROVE  /\ c \in [S!Tags -> Values] /\ c["MODEL"] <= S!MaxModel
           /\ \A i \in 1..13 : c[S!Order[i]] \in Values
  BY SaveOrder DEF S!Context

\* A field that m68k_serialize wrote has the tag, length and value of its place.
LEMMA FieldFacts ==
    ASSUME stored \in S!Context
    PROVE  \A i \in 1..13 : /\ Field(i) \in FieldSet /\ Field(i).tag = S!Order[i]
                            /\ Field(i).len = S!Payload[S!Order[i]]
                            /\ Field(i).value = stored[S!Order[i]]
  BY ContextFacts, SaveOrder, SaveOffsets DEF Field, FieldSet

\* Entering m68k_serialize, with room for the state or without.
LEMMA SerializeKeeps ==
    ASSUME SaveInv, NEW capacity \in Capacities, S!Serialize(capacity)
    PROVE  SaveInv'
  <1>1. call = "none" /\ before' = cpu /\ cpu' = cpu /\ latched' = latched
    BY DEF S!Serialize
  <1> USE SaveTyped
  <1>2. CASE capacity < S!Need
    <2>1. /\ call' = "none" /\ p' = 0 /\ next' = 1 /\ outcome' = "nospace"
          /\ UNCHANGED <<header, fields, length, saves, stored, damage>>
      BY <1>2 DEF S!Serialize, S!Return, S!stored
    <2>2. S!TypeOK' /\ fields' \in Seq(FieldSet)
      BY <1>1, <2>1, SaveTypes
    <2>3. Calls'
      BY <1>1, <2>1 DEF SaveInv, Calls
    <2>4. fields # <<>> => Layout'
      BY <1>1, <2>1, LayoutKept DEF SaveInv
    <2>5. QED
      BY <2>1, <2>2, <2>3, <2>4, NoOutcome DEF SaveInv
  <1>3. CASE ~(capacity < S!Need)
    <2>1. /\ saves < MaxSaves /\ saves' = saves + 1
          /\ call' = "serialize" /\ outcome' = "none" /\ p' = S!HeaderSize /\ next' = 1
          /\ header' = "good" /\ fields' = <<>> /\ length' = 0
          /\ stored' = cpu /\ damage' = "none"
      BY <1>3 DEF S!Serialize
    <2>2. p' = 8 /\ Offset[1] = 8 /\ MaxSaves \in Nat
      BY <2>1, SaveOrder, SaveOffsets, HostAssumption DEF HostAssumption, S!SaveStateAssumption
    <2>3. fields' \in Seq(FieldSet) /\ Len(fields') = 0 /\ saves' \in 0..MaxSaves
      BY <2>1, <2>2
    <2>4. S!TypeOK'
      BY <1>1, <2>1, <2>2, <2>3, SaveTypes
    <2>5. Calls'
      BY <1>1, <2>1, <2>2, <2>3 DEF Calls
    <2>6. QED
      BY <2>1, <2>3, <2>4, <2>5, NoOutcome DEF SaveInv
  <1>4. QED
    BY <1>2, <1>3

\* One field written.
LEMMA WriteFieldKeeps == SaveInv /\ S!WriteField => SaveInv'
  <1> SUFFICES ASSUME SaveInv, S!WriteField PROVE SaveInv'
    OBVIOUS
  <1> USE SaveTyped
  <1>1. /\ call = "serialize" /\ next <= 13 /\ next' = next + 1
        /\ fields' = Append(fields, [tag |-> S!Order[next], len |-> S!Payload[S!Order[next]],
                                     value |-> cpu[S!Order[next]]])
        /\ p' = p + 2 + S!Payload[S!Order[next]]
        /\ UNCHANGED <<cpu, latched, header, length, call, outcome, saves, stored, damage, before>>
    BY SaveOrder DEF S!WriteField, S!history
  <1>2. /\ damage = "none" /\ stored = cpu /\ Len(fields) = next - 1 /\ p = Offset[next]
        /\ \A i \in 1 .. next - 1 : fields[i] = Field(i)
        /\ next \in 1..13 /\ outcome = "none" /\ header = "good"
    BY <1>1 DEF SaveInv, Calls
  <1>3. fields' = Append(fields, Field(next)) /\ Field(next) \in FieldSet
    BY <1>1, <1>2, FieldFacts DEF Field
  <1>4. /\ fields' \in Seq(FieldSet) /\ Len(fields') = next' - 1
        /\ \A i \in 1 .. next' - 1 : fields'[i] = Field(i)
    BY <1>1, <1>2, <1>3
  <1>5. \A i : Field(i)' = Field(i)
    BY <1>1 DEF Field
  <1>6. p' = Offset[next'] /\ p' \in Nat /\ next' \in 1..14
    <2>1. next' \in 1..14 /\ next' = next + 1
      <3>1. next' = next + 1
        BY <1>1
      <3>2. next \in 1..13
        BY <1>2
      <3>3. QED
        BY <3>1, <3>2, SMT
    <2>2. /\ Offset[next + 1] = Offset[next] + 2 + S!Payload[S!Order[next]]
          /\ Offset[next + 1] \in Nat
      <3>1. PICK i \in 1..13 : i = next
        BY <1>2
      <3>2. i + 1 \in 1..14
        OBVIOUS
      <3>3. Offset[i + 1] = Offset[i] + 2 + S!Payload[S!Order[i]] /\ Offset[i + 1] \in Nat
        BY <3>2, SaveOffsets
      <3>4. QED
        BY <3>1, <3>3
    <2>3. QED
      BY <1>1, <1>2, <2>1, <2>2
  <1>7. S!TypeOK'
    BY <1>1, <1>4, <1>6, SaveTypes
  <1>8. Calls'
    BY <1>1, <1>2, <1>4, <1>5, <1>6 DEF Calls
  <1>9. QED
    BY <1>1, <1>2, <1>4, <1>7, <1>8, NoOutcome DEF SaveInv

\* The end of m68k_serialize: the buffer is the whole of the context saved.
LEMMA WrittenKeeps == SaveInv /\ S!Written => SaveInv'
  <1> SUFFICES ASSUME SaveInv, S!Written PROVE SaveInv'
    OBVIOUS
  <1> USE SaveTyped
  <1>1. /\ call = "serialize" /\ next > 13 /\ length' = p
        /\ call' = "none" /\ p' = 0 /\ next' = 1 /\ outcome' = "written"
        /\ UNCHANGED <<cpu, latched, header, fields, saves, stored, damage, before>>
    BY SaveOrder DEF S!Written, S!Return, S!history
  <1>2. /\ damage = "none" /\ Len(fields) = 13 /\ p = 146 /\ header = "good"
        /\ \A i \in 1..13 : fields[i] = Field(i)
    <2>1. /\ damage = "none" /\ next \in 1..14 /\ Len(fields) = next - 1 /\ p = Offset[next]
          /\ header = "good" /\ \A i \in 1 .. next - 1 : fields[i] = Field(i)
      BY <1>1 DEF SaveInv, Calls
    <2>2. next = 14
      BY <1>1, <2>1
    <2>3. QED
      BY <2>1, <2>2, SaveOffsets
  <1>3. \A i : Field(i)' = Field(i)
    BY <1>1 DEF Field
  <1>4. S!TypeOK' /\ fields' \in Seq(FieldSet)
    BY <1>1, SaveTypes
  <1>5. Calls'
    BY <1>1, <1>2 DEF Calls
  <1>6. Layout'
    BY <1>1, <1>2, <1>3 DEF Layout, IntactLayout, Whole
  <1>7. RestoresOrRefuses' /\ AppliedIsPrefix'
    BY <1>1, <1>2, SaveOrder
    DEF RestoresOrRefuses, AppliedIsPrefix, S!RoundTrip, S!DamageRefused, S!AppliedIsPrefix
  <1>8. QED
    BY <1>4, <1>5, <1>6, <1>7 DEF SaveInv

\* The machine runs on; the buffer stays what it was.
LEMMA RunKeeps == SaveInv /\ S!Run => SaveInv'
  <1> SUFFICES ASSUME SaveInv, S!Run PROVE SaveInv'
    OBVIOUS
  <1>1. /\ call = "none" /\ latched' = TRUE /\ outcome' = "none" /\ before' = cpu'
        /\ UNCHANGED <<header, fields, length, call, p, next, saves, stored, damage>>
    BY DEF S!Run, S!stored
  <1>2. PICK v \in Values : v <= S!MaxModel /\ cpu' = [t \in S!Tags |-> v]
    BY DEF S!Run
  <1>3. cpu' \in S!Context
    BY <1>2, SaveOrder DEF S!Context
  <1>4. latched' \in BOOLEAN
    BY <1>1, Zenon
  <1>5. S!TypeOK' /\ fields' \in Seq(FieldSet)
    BY <1>1, <1>3, <1>4, SaveTyped, SaveTypes
  <1>6. Calls'
    BY <1>1 DEF SaveInv, Calls
  <1>7. fields # <<>> => Layout'
    BY <1>1, LayoutKept DEF SaveInv
  <1>8. QED
    BY <1>1, <1>5, <1>6, <1>7, NoOutcome DEF SaveInv

\* The bytes that are damaged are those of one whole state between two calls.
LEMMA DamagedFacts ==
    ASSUME SaveInv, S!Intact, S!Damaged
    PROVE  /\ call' = "none" /\ outcome' = "none" /\ p' = 0 /\ next' = 1 /\ before' = cpu
           /\ UNCHANGED <<cpu, latched, call, saves, stored>>
           /\ header = "good" /\ Whole /\ length = 146 /\ fields # <<>>
           /\ \A i : Field(i)' = Field(i)
           /\ RestoresOrRefuses' /\ AppliedIsPrefix'
  <1>1. /\ outcome' = "none" /\ before' = cpu /\ UNCHANGED <<cpu, latched, call, p, next, saves, stored>>
        /\ call = "none" /\ damage = "none" /\ fields # <<>>
    BY DEF S!Intact, S!Damaged
  <1>2. p = 0 /\ next = 1 /\ header = "good"
    BY <1>1 DEF SaveInv, Calls
  <1>3. Whole /\ length = 146
    BY <1>1 DEF SaveInv, Layout, IntactLayout
  <1>4. \A i : Field(i)' = Field(i)
    BY <1>1 DEF Field
  <1>5. QED
    BY <1>1, <1>2, <1>3, <1>4, NoOutcome

\* A damaged state has the types, and the calls go on as before.
LEMMA DamagedKeeps ==
    ASSUME SaveInv, S!Intact, S!Damaged, Layout',
           damage' \in {"header", "cut", "length", "model", "newer"},
           fields' \in Seq(FieldSet), Len(fields') > 0, length' \in Nat,
           header' \in {"good", "magic", "version"}, (header' = "good") <=> (damage' # "header")
    PROVE  SaveInv'
  <1>1. /\ call' = "none" /\ outcome' = "none" /\ p' = 0 /\ next' = 1 /\ before' = cpu
        /\ UNCHANGED <<cpu, latched, call, saves, stored>>
        /\ RestoresOrRefuses' /\ AppliedIsPrefix'
    BY DamagedFacts
  <1>2. next' \in 1 .. Len(fields') + 1 /\ fields' # <<>>
    BY <1>1
  <1>3. S!TypeOK'
    BY <1>1, <1>2, SaveTyped, SaveTypes
  <1>4. Calls'
    BY <1>1, <1>2 DEF Calls
  <1>5. QED
    BY <1>1, <1>3, <1>4 DEF SaveInv

\* A buffer cut short is a prefix of a whole one.
LEMMA TruncateKeeps == SaveInv /\ S!Truncate => SaveInv'
  <1> SUFFICES ASSUME SaveInv, S!Truncate PROVE SaveInv'
    OBVIOUS
  <1>1. /\ S!Intact /\ S!Damaged /\ damage' = "cut" /\ length' \in 0 .. length - 1
        /\ fields' = fields /\ header' = header
    BY DEF S!Truncate
  <1>2. /\ header = "good" /\ Whole /\ length = 146 /\ call' = "none" /\ \A i : Field(i)' = Field(i)
    BY <1>1, DamagedFacts
  <1>3. Whole' /\ Len(fields) = 13
    BY <1>1, <1>2 DEF Whole
  <1>4. length' \in Nat /\ length' < 146
    BY <1>1, <1>2
  <1>5. Layout'
    BY <1>1, <1>2, <1>3, <1>4 DEF Layout, CutLayout
  <1>6. QED
    BY <1>1, <1>2, <1>3, <1>4, <1>5, SaveTyped, DamagedKeeps

\* Damage to the header leaves the fields alone.
LEMMA DamageHeaderKeeps == SaveInv /\ S!DamageHeader => SaveInv'
  <1> SUFFICES ASSUME SaveInv, S!DamageHeader PROVE SaveInv'
    OBVIOUS
  <1>1. /\ S!Intact /\ S!Damaged /\ damage' = "header" /\ header' \in {"magic", "version"}
        /\ fields' = fields /\ length' = length
    BY DEF S!DamageHeader
  <1>2. Whole /\ length = 146 /\ call' = "none" /\ \A i : Field(i)' = Field(i)
    BY <1>1, DamagedFacts
  <1>3. Whole' /\ Len(fields) = 13
    BY <1>1, <1>2 DEF Whole
  <1>4. Layout'
    BY <1>1, <1>2, <1>3 DEF Layout, IntactLayout
  <1>5. QED
    BY <1>1, <1>2, <1>3, <1>4, SaveTyped, DamagedKeeps

\* A field of a newer library leaves the known ones in their order.
LEMMA AddUnknownFieldKeeps == SaveInv /\ S!AddUnknownField => SaveInv'
  <1> SUFFICES ASSUME SaveInv, S!AddUnknownField PROVE SaveInv'
    OBVIOUS
  <1>1. S!Intact /\ S!Damaged /\ damage' = "newer" /\ header' = header
    BY DEF S!AddUnknownField
  <1>2. /\ header = "good" /\ Whole /\ length = 146 /\ call' = "none" /\ \A i : Field(i)' = Field(i)
    BY <1>1, DamagedFacts
  <1>3. Len(fields) = 13 /\ \A i \in 1..13 : fields[i] = Field(i)
    BY <1>2 DEF Whole
  <1>4. PICK j \in 1..14, n \in {0, 3} :
            /\ fields' = S!InsertAt(fields, j, [tag |-> "UNKNOWN", len |-> n, value |-> 0])
            /\ length' = length + 2 + n
    BY <1>3 DEF S!AddUnknownField
  <1>5. [tag |-> "UNKNOWN", len |-> n, value |-> 0] \in FieldSet
    BY HostAssumption DEF FieldSet, HostAssumption, S!SaveStateAssumption
  <1>6. PICK e \in FieldSet : e = [tag |-> "UNKNOWN", len |-> n, value |-> 0]
    BY <1>5
  <1>7. Len(fields) + 1 = 14 /\ j \in 1..14
    BY <1>3
  <1>8. /\ fields' \in Seq(FieldSet) /\ Len(fields') = 14 /\ fields'[j] = e
        /\ \A k \in 1 .. j - 1 : fields'[k] = fields[k]
        /\ \A k \in j + 1 .. 14 : fields'[k] = fields[k - 1]
    <2>1. fields' = S!InsertAt(fields, j, e)
      BY <1>4, <1>6, Zenon
    <2>2. fields \in Seq(FieldSet)
      BY SaveTyped
    <2>3. j \in 1 .. Len(fields) + 1
      BY <1>7, Zenon
    <2>4. /\ fields' \in Seq(FieldSet) /\ Len(fields') = Len(fields) + 1 /\ fields'[j] = e
          /\ \A k \in 1 .. j - 1 : fields'[k] = fields[k]
          /\ \A k \in j + 1 .. Len(fields) + 1 : fields'[k] = fields[k - 1]
      <3>1. e \in FieldSet
        BY <1>6
      <3>2. PICK new : new = fields'
        OBVIOUS
      <3>3. new = S!InsertAt(fields, j, e)
        BY <2>1, <3>2, Zenon
      <3>4. /\ new \in Seq(FieldSet) /\ Len(new) = Len(fields) + 1 /\ new[j] = e
            /\ \A k \in 1 .. j - 1 : new[k] = fields[k]
            /\ \A k \in j + 1 .. Len(fields) + 1 : new[k] = fields[k - 1]
        <4>1. IsInsertion(new, FieldSet, fields, j, e)
          BY <2>2, <2>3, <3>1, <3>3, Inserted, Zenon
        <4>2. QED
          BY <4>1, Zenon DEF IsInsertion
      <3>5. QED
        BY <3>2, <3>4, Zenon
    <2>5. QED
      BY <1>7, <2>4, Zenon
  <1>9. /\ \A i \in 1 .. j - 1 : fields'[i] = Field(i)
        /\ \A i \in j + 1 .. 14 : fields'[i] = Field(i - 1)
    <2>1. \A i \in 1 .. j - 1 : i \in 1..13
      BY <1>7
    <2>2. \A i \in j + 1 .. 14 : i - 1 \in 1..13
      BY <1>7
    <2>3. QED
      BY <1>3, <1>8, <2>1, <2>2, Zenon
  <1>10. WithUnknown(j, n)'
    BY <1>2, <1>6, <1>8, <1>9 DEF WithUnknown
  <1>11. length' = 148 + n /\ length' \in Nat
    BY <1>2, <1>4
  <1>12. Layout'
    BY <1>1, <1>2, <1>10, <1>11 DEF Layout, NewerLayout
  <1>13. QED
    BY <1>1, <1>2, <1>8, <1>9, <1>11, <1>12, DamagedKeeps

\* One length, or the model number, is wrong.
LEMMA DamageFieldKeeps == SaveInv /\ S!DamageField => SaveInv'
  <1> SUFFICES ASSUME SaveInv, S!DamageField PROVE SaveInv'
    OBVIOUS
  <1>1. S!Intact /\ S!Damaged /\ header' = header /\ length' = length
    BY DEF S!DamageField
  <1>2. /\ header = "good" /\ Whole /\ length = 146 /\ call' = "none" /\ \A i : Field(i)' = Field(i)
    BY <1>1, DamagedFacts
  <1>3. Len(fields) = 13 /\ \A i \in 1..13 : fields[i] = Field(i)
    BY <1>2 DEF Whole
  <1>4. PICK j \in 1..13 :
            \/ /\ \E n \in {S!Payload[fields[j].tag] - 1, S!Payload[fields[j].tag] + 1} :
                     fields' = [fields EXCEPT ![j].len = n]
               /\ damage' = "length"
            \/ /\ fields[j].tag = "MODEL" /\ damage' = "model"
               /\ \E v \in {v \in Values : v > S!MaxModel} : fields' = [fields EXCEPT ![j].value = v]
    BY <1>3 DEF S!DamageField
  <1>5. /\ fields[j] \in FieldSet /\ fields[j].tag = S!Order[j]
        /\ fields[j].len = S!Payload[S!Order[j]] /\ S!Payload[S!Order[j]] \in Nat \ {0}
    <2>1. stored \in S!Context /\ fields[j] = Field(j)
      BY <1>3, SaveTyped
    <2>2. QED
      BY <2>1, FieldFacts, SaveOffsets
  <1>6. CASE damage' = "length"
    <2>1. PICK n \in {S!Payload[fields[j].tag] - 1, S!Payload[fields[j].tag] + 1} :
                fields' = [fields EXCEPT ![j].len = n]
      BY <1>4, <1>6
    <2>2. n \in Nat /\ n # S!Payload[S!Order[j]]
      BY <1>5
    <2>3. PICK f : f = [fields[j] EXCEPT !.len = n]
      OBVIOUS
    <2>4. f \in FieldSet /\ f.tag = S!Order[j] /\ f.len = n
      BY <1>5, <2>2, <2>3 DEF FieldSet
    <2>5. /\ fields' \in Seq(FieldSet) /\ Len(fields') = 13
          /\ \A i \in 1..13 : i # j => fields'[i] = fields[i]
          /\ fields'[j] = f
      <3>1. fields' = [fields EXCEPT ![j] = f]
        BY <2>1, <2>3
      <3>2. fields \in Seq(FieldSet) /\ Len(fields) = 13
        BY <1>3, SaveTyped
      <3>3. PICK new : new = fields'
        OBVIOUS
      <3>4. new = [fields EXCEPT ![j] = f]
        BY <3>1, <3>3
      <3>5. /\ new \in Seq(FieldSet) /\ Len(new) = Len(fields) /\ new[j] = f
            /\ \A i \in 1 .. Len(fields) : i # j => new[i] = fields[i]
        <4>1. j \in 1..Len(fields) /\ f \in FieldSet
          BY <2>4, <3>2, Zenon
        <4>2. fields \in Seq(FieldSet)
          BY <3>2
        <4>3. QED
          BY <3>4, <4>1, <4>2
      <3>6. QED
        BY <3>2, <3>3, <3>5, Zenon
    <2>6. WrongLength(j)'
      BY <1>2, <1>3, <2>2, <2>4, <2>5 DEF WrongLength
    <2>7. Layout'
      BY <1>1, <1>2, <1>6, <2>6 DEF Layout, LengthLayout
    <2>8. QED
      BY <1>1, <1>2, <1>6, <2>5, <2>7, SaveTyped, DamagedKeeps
  <1>7. CASE damage' = "model"
    <2>1. PICK v \in Values : v > S!MaxModel /\ fields' = [fields EXCEPT ![j].value = v]
      BY <1>4, <1>7
    <2>2. j = 13
      BY <1>4, <1>5, <1>7, SaveOrder
    <2>3. PICK f : f = [fields[j] EXCEPT !.value = v]
      OBVIOUS
    <2>4. f \in FieldSet /\ f.tag = "MODEL" /\ f.value = v
      BY <1>4, <1>5, <1>7, <2>3 DEF FieldSet
    <2>5. /\ fields' \in Seq(FieldSet) /\ Len(fields') = 13
          /\ \A i \in 1..13 : i # j => fields'[i] = fields[i]
          /\ fields'[j] = f
      <3>1. fields' = [fields EXCEPT ![j] = f]
        BY <2>1, <2>3
      <3>2. fields \in Seq(FieldSet) /\ Len(fields) = 13
        BY <1>3, SaveTyped
      <3>3. PICK new : new = fields'
        OBVIOUS
      <3>4. new = [fields EXCEPT ![j] = f]
        BY <3>1, <3>3
      <3>5. /\ new \in Seq(FieldSet) /\ Len(new) = Len(fields) /\ new[j] = f
            /\ \A i \in 1 .. Len(fields) : i # j => new[i] = fields[i]
        <4>1. j \in 1..Len(fields) /\ f \in FieldSet
          BY <2>4, <3>2, Zenon
        <4>2. fields \in Seq(FieldSet)
          BY <3>2
        <4>3. QED
          BY <3>4, <4>1, <4>2
      <3>6. QED
        BY <3>2, <3>3, <3>5, Zenon
    <2>6. WrongModel'
      <3>1. \A i \in 1..12 : i \in 1..13 /\ i # j
        BY <2>2
      <3>2. fields'[13].tag = "MODEL" /\ fields'[13].value > S!MaxModel
        BY <2>1, <2>2, <2>4, <2>5, Zenon
      <3>3. \A i \in 1..12 : fields'[i] = Field(i)'
        BY <1>2, <1>3, <2>5, <3>1, Zenon
      <3>4. QED
        BY <2>5, <3>2, <3>3 DEF WrongModel
    <2>7. Layout'
      BY <1>1, <1>2, <1>7, <2>6 DEF Layout, ModelLayout
    <2>8. QED
      BY <1>1, <1>2, <1>7, <2>5, <2>7, SaveTyped, DamagedKeeps
  <1>8. QED
    BY <1>4, <1>6, <1>7

\* Entering m68k_deserialize: the header is tested before any field is applied.
LEMMA DeserializeCallKeeps == SaveInv /\ S!Deserialize => SaveInv'
  <1> SUFFICES ASSUME SaveInv, S!Deserialize PROVE SaveInv'
    OBVIOUS
  <1>1. /\ call = "none" /\ fields # <<>> /\ before' = cpu
        /\ UNCHANGED <<cpu, latched, header, fields, length, saves, stored, damage>>
    BY DEF S!Deserialize, S!stored
  <1>2. Layout
    BY <1>1 DEF SaveInv
  <1>3. CASE call' = "none" /\ p' = 0 /\ next' = 1 /\ outcome' = "refused"
             /\ (length < S!HeaderSize \/ header # "good")
    <2>1. S!TypeOK' /\ fields' \in Seq(FieldSet)
      BY <1>1, <1>3, SaveTyped, SaveTypes
    <2>2. Calls'
      BY <1>1, <1>3 DEF SaveInv, Calls
    <2>3. Layout'
      BY <1>1, <1>2, <1>3, LayoutKept
    <2>4. damage \in {"header", "cut"}
      <3>1. header # "good" => damage = "header"
        BY DEF SaveInv, Calls
      <3>2. damage \in {"none", "header", "cut", "length", "model", "newer"}
        BY DEF SaveInv, Calls
      <3>3. damage \notin {"header", "cut"} => length >= 146
        BY <1>2, <3>2 DEF Layout, IntactLayout, LengthLayout, ModelLayout, NewerLayout
      <3>4. QED
        BY <1>3, <3>1, <3>3, SaveOrder, SaveTyped
    <2>5. RestoresOrRefuses'
      BY <1>1, <1>3, <2>4 DEF RestoresOrRefuses, S!RoundTrip, S!DamageRefused
    <2>6. AppliedIsPrefix'
      <3>1. \A i \in 1..13 : cpu'[S!Order[i]] = (IF i <= 0 THEN stored' ELSE before')[S!Order[i]]
        BY <1>1
      <3>2. QED
        BY <1>1, <3>1, SaveOrder DEF AppliedIsPrefix, S!AppliedIsPrefix
    <2>7. QED
      BY <2>1, <2>2, <2>3, <2>5, <2>6 DEF SaveInv
  <1>4. CASE /\ header = "good" /\ call' = "deserialize" /\ outcome' = "none"
             /\ p' = S!HeaderSize /\ next' = 1
    <2>1. p' = 8
      BY <1>4, SaveOrder
    <2>2. next' \in 1 .. Len(fields') + 1 /\ p' \in Nat
      BY <1>1, <1>4, <2>1, SaveTyped
    <2>3. S!TypeOK' /\ fields' \in Seq(FieldSet)
      BY <1>1, <1>4, <2>2, SaveTyped, SaveTypes
    <2>4. Calls'
      BY <1>1, <1>4 DEF SaveInv, Calls
    <2>5. Layout'
      BY <1>1, <1>2, <1>4, <2>1, LayoutBegun
    <2>6. QED
      BY <1>4, <2>3, <2>4, <2>5, NoOutcome DEF SaveInv
  <1>5. QED
    BY <1>3, <1>4 DEF S!Deserialize, S!Return

\* One field of the stored context is applied.
LEMMA AppliedNext ==
    ASSUME SaveInv, NEW k \in 1..13, Applied(k - 1), UNCHANGED <<stored, before>>,
           cpu' = [cpu EXCEPT ![S!Order[k]] = stored[S!Order[k]]]
    PROVE  Applied(k)'
  <1> SUFFICES ASSUME NEW i \in 1..13
               PROVE  cpu'[S!Order[i]] = IF i <= k THEN stored[S!Order[i]] ELSE before[S!Order[i]]
    BY DEF Applied
  <1>1. /\ cpu \in [S!Tags -> Values] /\ S!Order[i] \in S!Tags /\ S!Order[k] \in S!Tags
        /\ (S!Order[i] = S!Order[k] => i = k)
    BY SaveTyped, ContextFacts, SaveOrder, SaveTags
  <1>2. CASE i = k
    BY <1>1, <1>2
  <1>3. CASE i # k
    <2>1. cpu'[S!Order[i]] = cpu[S!Order[i]]
      BY <1>1, <1>3
    <2>2. cpu[S!Order[i]] = IF i <= k - 1 THEN stored[S!Order[i]] ELSE before[S!Order[i]]
      BY DEF Applied
    <2>3. (i <= k - 1) <=> (i <= k)
      BY <1>3
    <2>4. QED
      BY <2>1, <2>2, <2>3
  <1>4. QED
    BY <1>2, <1>3

\* SaveOffsets for one field.
LEMMA OffsetNext ==
    ASSUME NEW i \in 1..13
    PROVE  /\ Offset[i] \in Nat /\ Offset[i + 1] \in Nat /\ Offset[i + 1] <= 146 /\ Offset[i] <= 140
           /\ Offset[i + 1] = Offset[i] + 2 + S!Payload[S!Order[i]]
           /\ S!Payload[S!Order[i]] \in Nat
  <1>1. i \in 1..14 /\ i + 1 \in 1..14
    OBVIOUS
  <1>2. QED
    BY <1>1, SaveOffsets

\* Every value applied so far is of the stored context.
LEMMA AllApplied ==
    ASSUME SaveInv, Applied(13)
    PROVE  cpu = stored
  <1>1. cpu \in [S!Tags -> Values] /\ stored \in [S!Tags -> Values]
    BY SaveTyped, ContextFacts
  <1>2. \A i \in 1..13 : cpu[S!Order[i]] = stored[S!Order[i]]
    BY DEF Applied
  <1>3. \A t \in S!Tags : cpu[t] = stored[t]
    BY <1>2, SaveTags
  <1>4. QED
    BY <1>1, <1>3

(***************************************************************************)
(* The turns of m68k_deserialize's loop.                                   *)
(***************************************************************************)
\* A turn that takes its field, and the ends of the call.
TakesField ==
    /\ call = "deserialize" /\ p < length /\ ~S!Refused(fields[next])
    /\ cpu' = IF fields[next].tag \in S!Tags
              THEN [cpu EXCEPT ![fields[next].tag] = fields[next].value] ELSE cpu
    /\ p' = p + 2 + fields[next].len /\ next' = next + 1
    /\ UNCHANGED <<latched, header, fields, length, call, outcome, saves, stored, damage, before>>
CallEnds(result) ==
    /\ call = "deserialize" /\ cpu' = cpu
    /\ call' = "none" /\ p' = 0 /\ next' = 1 /\ outcome' = result
    /\ UNCHANGED <<header, fields, length, saves, stored, damage, before>>

\* A field of a context is taken wherever the data holds it.
LEMMA FieldHeld ==
    ASSUME SaveInv, NEW k \in 1..13, fields[next] = Field(k), length - p >= 2 + S!Payload[S!Order[k]]
    PROVE  ~S!Refused(fields[next])
  <1>1. PICK f : f = fields[next]
    OBVIOUS
  <1>2. /\ f.tag = S!Order[k] /\ f.len = S!Payload[S!Order[k]] /\ f.value = stored[S!Order[k]]
    BY <1>1, SaveTyped, FieldFacts
  <1>3. S!Payload[S!Order[k]] \in Nat /\ length \in Int /\ p \in Int
    <2>1. S!Payload[S!Order[k]] \in Nat
      BY OffsetNext, Zenon
    <2>2. length \in Nat /\ p \in Nat
      BY SaveTyped, Zenon
    <2>3. QED
      BY <2>1, <2>2
  <1>4. stored["MODEL"] <= S!MaxModel
    BY SaveTyped, ContextFacts
  <1>5. ~(f.tag = "MODEL" /\ f.value > S!MaxModel)
    <2>1. stored["MODEL"] \in Values /\ Values \subseteq Nat
      BY SaveTyped, ContextFacts, SaveOrder, HostAssumption DEF HostAssumption, S!SaveStateAssumption
    <2>2. ~(stored["MODEL"] > S!MaxModel)
      <3>1. PICK m : m = stored["MODEL"]
        OBVIOUS
      <3>2. m \in Nat /\ m <= 1
        BY <1>4, <2>1, <3>1 DEF S!MaxModel
      <3>3. QED
        BY <3>1, <3>2 DEF S!MaxModel
    <2>3. f.tag = "MODEL" => f.value = stored["MODEL"]
      BY <1>2, Zenon
    <2>4. QED
      BY <2>2, <2>3, Zenon
  <1>6. ~(length - p < 2) /\ ~(length - p - 2 < f.len)
    BY <1>2, <1>3
  <1>7. QED
    BY <1>1, <1>2, <1>5, <1>6 DEF S!Refused

\* Taking a field of the stored context.
LEMMA FieldTaken ==
    ASSUME SaveInv, TakesField, NEW k \in 1..13, fields[next] = Field(k), Applied(k - 1)
    PROVE  Applied(k)' /\ p' = p + 2 + S!Payload[S!Order[k]] /\ next' = next + 1
  <1>1. /\ fields[next].tag = S!Order[k] /\ fields[next].len = S!Payload[S!Order[k]]
        /\ fields[next].value = stored[S!Order[k]] /\ S!Order[k] \in S!Tags
    BY SaveTyped, FieldFacts, SaveOrder
  <1>2. /\ cpu' = [cpu EXCEPT ![S!Order[k]] = stored[S!Order[k]]]
        /\ UNCHANGED <<stored, before>>
    BY <1>1 DEF TakesField
  <1>3. QED
    BY <1>1, <1>2, AppliedNext DEF TakesField

\* Before the end of a buffer with no unknown field, a known field is next.
LEMMA PlainRange ==
    ASSUME SaveInv, Parsing, length <= 146, p < length
    PROVE  next \in 1..13 /\ Offset[next] = p /\ Applied(next - 1)
  <1>1. next \in 1..14 /\ p = Offset[next] /\ Applied(next - 1)
    BY DEF Parsing
  <1>2. next # 14
    BY <1>1, SaveOffsets, SaveTyped
  <1>3. QED
    BY <1>1, <1>2

\* A field taken as written moves the loop to the next one and is applied.
LEMMA PlainTaken ==
    ASSUME SaveInv, TakesField, Parsing, next \in 1..13, fields[next] = Field(next)
    PROVE  Parsing' /\ next' = next + 1
  <1>1. PICK k \in 1..13 : k = next
    OBVIOUS
  <1>2. p = Offset[k] /\ Applied(k - 1) /\ fields[next] = Field(k)
    BY <1>1 DEF Parsing
  <1>3. Applied(k)' /\ p' = p + 2 + S!Payload[S!Order[k]] /\ next' = next + 1
    BY <1>2, FieldTaken
  <1>4. p' = Offset[k + 1] /\ next' = k + 1 /\ next' \in 1..14
    BY <1>1, <1>2, <1>3, OffsetNext
  <1>5. next' - 1 = k
    BY <1>4
  <1>6. Applied(next - 1)'
    BY <1>3, <1>5 DEF Applied
  <1>7. QED
    BY <1>3, <1>4, <1>6 DEF Parsing

\* The layout does not change under m68k_deserialize.
LEMMA LayoutStable ==
    ASSUME UNCHANGED <<fields, stored>>
    PROVE  /\ Whole' = Whole /\ WrongModel' = WrongModel
           /\ \A j : WrongLength(j)' = WrongLength(j)
           /\ \A j, n : WithUnknown(j, n)' = WithUnknown(j, n)
  <1>1. \A i : Field(i)' = Field(i)
    BY DEF Field
  <1>2. Whole = Whole' /\ WrongModel = WrongModel'
    BY <1>1 DEF Whole, WrongModel
  <1>3. \A j : WrongLength(j)' = WrongLength(j)
    BY <1>1 DEF WrongLength
  <1>4. \A j, n : WithUnknown(j, n)' = WithUnknown(j, n)
    BY <1>1 DEF WithUnknown
  <1>5. QED
    BY <1>2, <1>3, <1>4

\* A turn of the loop on a whole or cut buffer.
LEMMA WholeTurn ==
    ASSUME SaveInv, TakesField, Whole, Parsing, length <= 146
    PROVE  Whole' /\ Parsing' /\ next \in 1..Len(fields)
  <1>1. next \in 1..13 /\ Len(fields) = 13 /\ fields[next] = Field(next)
    BY PlainRange DEF TakesField, Whole
  <1>2. Parsing'
    BY <1>1, PlainTaken
  <1>3. QED
    BY <1>1, <1>2, LayoutStable DEF TakesField

\* A turn of the loop before the field whose length is wrong.
LEMMA LengthTurn ==
    ASSUME SaveInv, TakesField, length <= 146, NEW j \in 1..13, WrongLength(j), Parsing, next <= j
    PROVE  WrongLength(j)' /\ Parsing' /\ next' <= j /\ next \in 1..Len(fields)
  <1>1. next \in 1..13 /\ Len(fields) = 13
    BY PlainRange DEF TakesField, WrongLength
  <1>2. next # j
    <2> SUFFICES ASSUME next = j PROVE FALSE
      OBVIOUS
    <2>1. fields[next].tag \in S!Tags /\ fields[next].len # S!Payload[fields[next].tag]
      BY SaveOrder DEF WrongLength
    <2>2. QED
      BY <2>1 DEF TakesField, S!Refused
  <1>3. fields[next] = Field(next)
    BY <1>1, <1>2 DEF WrongLength
  <1>4. Parsing' /\ next' = next + 1
    BY <1>1, <1>3, PlainTaken
  <1>5. next' <= j
    BY <1>1, <1>2, <1>4
  <1>6. QED
    BY <1>1, <1>4, <1>5, LayoutStable DEF TakesField

\* A turn of the loop before the wrong model number.
LEMMA ModelTurn ==
    ASSUME SaveInv, TakesField, length <= 146, WrongModel, Parsing, next <= 13
    PROVE  WrongModel' /\ Parsing' /\ next' <= 13 /\ next \in 1..Len(fields)
  <1>1. next \in 1..13 /\ Len(fields) = 13
    BY PlainRange DEF TakesField, WrongModel
  <1>2. next # 13
    <2> SUFFICES ASSUME next = 13 PROVE FALSE
      OBVIOUS
    <2>1. fields[next].tag = "MODEL" /\ fields[next].value > S!MaxModel
      BY DEF WrongModel
    <2>2. QED
      BY <2>1 DEF TakesField, S!Refused
  <1>3. next \in 1..12 /\ fields[next] = Field(next)
    BY <1>1, <1>2 DEF WrongModel
  <1>4. Parsing' /\ next' = next + 1
    BY <1>1, <1>3, PlainTaken
  <1>5. next' <= 13
    BY <1>3, <1>4
  <1>6. QED
    BY <1>1, <1>4, <1>5, LayoutStable DEF TakesField

\* A turn of the loop on a buffer with one unknown field: it is skipped, never refused.
LEMMA UnknownTurn ==
    ASSUME SaveInv, p < length, NEW j \in 1..14, NEW n \in {0, 3}, WithUnknown(j, n),
           length = 148 + n, ParsingUnknown(j, n)
    PROVE  /\ next \in 1..Len(fields) /\ ~S!Refused(fields[next])
           /\ TakesField => WithUnknown(j, n)' /\ ParsingUnknown(j, n)'
  <1>1. n \in Nat /\ Len(fields) = 14 /\ p \in Nat
    BY SaveTyped DEF WithUnknown
  <1>2. CASE next < j
    <2>1. PICK k \in 1..13 : k = next
      BY <1>2 DEF ParsingUnknown
    <2>2. p = Offset[k] /\ Applied(k - 1) /\ fields[next] = Field(k)
      BY <1>2, <2>1 DEF ParsingUnknown, WithUnknown
    <2>3. /\ Offset[k + 1] = Offset[k] + 2 + S!Payload[S!Order[k]] /\ Offset[k + 1] <= 146
          /\ Offset[k] \in Nat /\ S!Payload[S!Order[k]] \in Nat
      BY OffsetNext
    <2>4. length - p >= 2 + S!Payload[S!Order[k]]
      BY <1>1, <2>2, <2>3
    <2>5. ~S!Refused(fields[next])
      BY <2>2, <2>4, FieldHeld
    <2>6. ASSUME TakesField PROVE WithUnknown(j, n)' /\ ParsingUnknown(j, n)'
      <3>1. Applied(k)' /\ p' = p + 2 + S!Payload[S!Order[k]] /\ next' = next + 1
        BY <2>2, <2>6, FieldTaken
      <3>2. p' = Offset[k + 1] /\ next' = k + 1 /\ next' <= j /\ next' \in 1..14
        BY <1>2, <2>1, <2>2, <2>3, <3>1
      <3>3. next' - 1 = k
        BY <3>2
      <3>4. Applied(next - 1)'
        BY <3>1, <3>3 DEF Applied
      <3>5. ParsingUnknown(j, n)'
        BY <3>2, <3>4 DEF ParsingUnknown
      <3>6. QED
        BY <2>6, <3>5, LayoutStable DEF TakesField
    <2>7. QED
      BY <1>1, <2>1, <2>5, <2>6
  <1>3. CASE next = j
    <2>1. p = Offset[j] /\ Applied(j - 1) /\ fields[next] = [tag |-> "UNKNOWN", len |-> n, value |-> 0]
      BY <1>3 DEF ParsingUnknown, WithUnknown
    <2>2. fields[next].tag = "UNKNOWN" /\ fields[next].len = n /\ "UNKNOWN" \notin S!Tags
      BY <2>1, SaveOrder
    <2>3. Offset[j] \in Nat /\ Offset[j] <= 146
      BY SaveOffsets
    <2>4. ~(length - p < 2) /\ ~(length - p - 2 < n)
      BY <1>1, <2>1, <2>3
    <2>5. ~S!Refused(fields[next])
      BY <2>2, <2>4 DEF S!Refused
    <2>6. ASSUME TakesField PROVE WithUnknown(j, n)' /\ ParsingUnknown(j, n)'
      <3>1. cpu' = cpu /\ p' = Offset[j] + 2 + n /\ next' = j + 1
        BY <1>3, <2>1, <2>2, <2>6 DEF TakesField
      <3>2. ~(next' <= j) /\ next' \in 2..15 /\ next' - 1 = j /\ next' - 2 = j - 1
        BY <3>1
      <3>3. Applied(next - 2)'
        BY <2>1, <2>6, <3>1, <3>2 DEF Applied, TakesField
      <3>4. ParsingUnknown(j, n)'
        BY <3>1, <3>2, <3>3 DEF ParsingUnknown
      <3>5. QED
        BY <2>6, <3>4, LayoutStable DEF TakesField
    <2>7. QED
      BY <1>1, <1>3, <2>5, <2>6
  <1>4. CASE next > j
    <2>1. next \in 2..15 /\ p = Offset[next - 1] + 2 + n /\ Applied(next - 2)
      BY <1>4, SaveTyped DEF ParsingUnknown
    <2>2. next # 15
      BY <1>1, <2>1, SaveOffsets
    <2>3. PICK k \in 1..13 : k = next - 1
      BY <2>1, <2>2
    <2>4. next = k + 1 /\ p = Offset[k] + 2 + n /\ next - 2 = k - 1
      BY <2>1, <2>3
    <2>5. Applied(k - 1) /\ fields[next] = Field(k)
      BY <1>4, <2>1, <2>3, <2>4 DEF WithUnknown
    <2>6. /\ Offset[k + 1] = Offset[k] + 2 + S!Payload[S!Order[k]] /\ Offset[k + 1] <= 146
          /\ Offset[k] \in Nat /\ S!Payload[S!Order[k]] \in Nat
      BY OffsetNext
    <2>7. length - p >= 2 + S!Payload[S!Order[k]]
      BY <1>1, <2>4, <2>6
    <2>8. ~S!Refused(fields[next])
      BY <2>5, <2>7, FieldHeld
    <2>9. ASSUME TakesField PROVE WithUnknown(j, n)' /\ ParsingUnknown(j, n)'
      <3>1. Applied(k)' /\ p' = p + 2 + S!Payload[S!Order[k]] /\ next' = next + 1
        BY <2>5, <2>9, FieldTaken
      <3>2. /\ p' = Offset[k + 1] + 2 + n /\ next' = k + 2 /\ ~(next' <= j) /\ next' \in 2..15
            /\ next' - 1 = k + 1 /\ next' - 2 = k
        BY <1>1, <1>4, <2>4, <2>6, <3>1
      <3>3. Applied(next - 2)'
        BY <3>1, <3>2 DEF Applied
      <3>4. ParsingUnknown(j, n)'
        BY <3>2, <3>3 DEF ParsingUnknown
      <3>5. QED
        BY <2>9, <3>4, LayoutStable DEF TakesField
    <2>10. QED
      BY <1>1, <2>4, <2>8, <2>9
  <1>5. QED
    BY <1>2, <1>3, <1>4, SaveTyped

\* While a state is being read the layout holds and some fields are applied.
LEMMA Reading ==
    ASSUME SaveInv, call = "deserialize"
    PROVE  /\ Layout /\ damage \in {"none", "cut", "length", "model", "newer"}
           /\ \E k \in 0..13 : Applied(k)
           /\ p < length => next \in 1..Len(fields)
           /\ p < length /\ damage \in {"none", "newer"} => ~S!Refused(fields[next])
  <1>1. Layout /\ damage \in {"none", "cut", "length", "model", "newer"}
    BY DEF SaveInv, Calls
  <1>2. CASE damage # "newer"
    <2>1. Parsing /\ Len(fields) = 13 /\ length <= 146
      <3>1. CASE damage \in {"none", "cut"}
        <4>1. Parsing /\ Len(fields) = 13 /\ (length = 146 \/ length < 146)
          BY <1>1, <3>1 DEF Layout, IntactLayout, CutLayout, Whole
        <4>2. length \in Nat
          BY SaveTyped
        <4>3. QED
          BY <4>1, <4>2
      <3>2. CASE damage = "length"
        BY <1>1, <3>2 DEF Layout, LengthLayout, WrongLength
      <3>3. CASE damage = "model"
        BY <1>1, <3>3 DEF Layout, ModelLayout, WrongModel
      <3>4. QED
        BY <1>1, <1>2, <3>1, <3>2, <3>3
    <2>2. next - 1 \in 0..13 /\ Applied(next - 1)
      BY <2>1 DEF Parsing
    <2>3. p < length => next \in 1..13
      BY <2>1, PlainRange
    <2>4. ASSUME p < length, damage = "none" PROVE ~S!Refused(fields[next])
      <3>1. PICK k \in 1..13 : k = next
        BY <2>3, <2>4
      <3>2. p = Offset[k] /\ fields[next] = Field(k) /\ length = 146
        BY <1>1, <2>1, <2>4, <3>1 DEF Parsing, Layout, IntactLayout, Whole
      <3>3. length - p >= 2 + S!Payload[S!Order[k]]
        BY <3>2, OffsetNext
      <3>4. QED
        BY <3>2, <3>3, FieldHeld
    <2>5. QED
      BY <1>1, <1>2, <2>1, <2>2, <2>3, <2>4
  <1>3. CASE damage = "newer"
    <2>1. PICK j \in 1..14, n \in {0, 3} :
              WithUnknown(j, n) /\ length = 148 + n /\ ParsingUnknown(j, n)
      BY <1>1, <1>3 DEF Layout, NewerLayout
    <2>2. \E k \in 0..13 : Applied(k)
      <3>1. CASE next <= j
        <4>1. next - 1 \in 0..13 /\ Applied(next - 1)
          BY <2>1, <3>1 DEF ParsingUnknown
        <4>2. QED
          BY <4>1
      <3>2. CASE ~(next <= j)
        <4>1. next - 2 \in 0..13 /\ Applied(next - 2)
          BY <2>1, <3>2 DEF ParsingUnknown
        <4>2. QED
          BY <4>1
      <3>3. QED
        BY <3>1, <3>2
    <2>3. p < length => next \in 1..Len(fields) /\ ~S!Refused(fields[next])
      BY <2>1, UnknownTurn
    <2>4. QED
      BY <1>1, <2>2, <2>3
  <1>4. QED
    BY <1>2, <1>3

\* A turn that takes its field keeps the layout.
LEMMA LayoutTaken ==
    ASSUME SaveInv, TakesField
    PROVE  Layout'
  <1>1. call = "deserialize" /\ p < length /\ call' = call /\ damage' = damage /\ length' = length
    BY DEF TakesField
  <1>2. Layout /\ damage \in {"none", "cut", "length", "model", "newer"}
    BY <1>1, Reading
  <1>3. CASE damage = "none"
    <2>1. Whole' /\ Parsing' /\ length = 146
      BY <1>1, <1>2, <1>3, WholeTurn DEF Layout, IntactLayout
    <2>2. QED
      BY <1>1, <1>3, <2>1 DEF Layout, IntactLayout
  <1>4. CASE damage = "cut"
    <2>1. Whole' /\ Parsing' /\ length < 146
      BY <1>1, <1>2, <1>4, WholeTurn, SaveTyped DEF Layout, CutLayout
    <2>2. QED
      BY <1>1, <1>4, <2>1 DEF Layout, CutLayout
  <1>5. CASE damage = "length"
    <2>1. PICK j \in 1..13 : WrongLength(j) /\ Parsing /\ next <= j
      BY <1>1, <1>2, <1>5 DEF Layout, LengthLayout
    <2>2. length = 146
      BY <1>2, <1>5 DEF Layout, LengthLayout
    <2>3. WrongLength(j)' /\ Parsing' /\ next' <= j
      BY <2>1, <2>2, LengthTurn
    <2>4. QED
      BY <1>1, <1>5, <2>2, <2>3 DEF Layout, LengthLayout
  <1>6. CASE damage = "model"
    <2>1. WrongModel' /\ Parsing' /\ next' <= 13 /\ length = 146
      BY <1>1, <1>2, <1>6, ModelTurn DEF Layout, ModelLayout
    <2>2. QED
      BY <1>1, <1>6, <2>1 DEF Layout, ModelLayout
  <1>7. CASE damage = "newer"
    <2>1. PICK j \in 1..14, n \in {0, 3} :
              WithUnknown(j, n) /\ length = 148 + n /\ ParsingUnknown(j, n)
      BY <1>1, <1>2, <1>7 DEF Layout, NewerLayout
    <2>2. WithUnknown(j, n)' /\ ParsingUnknown(j, n)'
      BY <1>1, <2>1, UnknownTurn
    <2>3. QED
      BY <1>1, <1>7, <2>1, <2>2 DEF Layout, NewerLayout
  <1>8. QED
    BY <1>2, <1>3, <1>4, <1>5, <1>6, <1>7

\* A turn that takes a field keeps the invariant, whatever the damage.
LEMMA TakesFieldKeeps ==
    ASSUME SaveInv, TakesField
    PROVE  SaveInv'
  <1>1. /\ call = "deserialize" /\ p < length /\ next' = next + 1 /\ p' = p + 2 + fields[next].len
        /\ UNCHANGED <<latched, header, fields, length, call, outcome, saves, stored, damage, before>>
        /\ ~S!Refused(fields[next])
    BY DEF TakesField
  <1>2. next \in 1..Len(fields) /\ fields[next] \in FieldSet
    BY <1>1, Reading, SaveTyped
  <1>3. cpu' \in S!Context
    <2>1. CASE fields[next].tag \notin S!Tags
      BY <2>1, SaveTyped DEF TakesField
    <2>2. CASE fields[next].tag \in S!Tags
      <3>1. PICK f \in FieldSet : f = fields[next]
        BY <1>2
      <3>2. cpu' = [cpu EXCEPT ![f.tag] = f.value] /\ f.tag \in S!Tags
        BY <2>2, <3>1 DEF TakesField
      <3>3. f.value \in Values /\ cpu \in [S!Tags -> Values] /\ cpu["MODEL"] <= S!MaxModel
        BY SaveTyped, ContextFacts DEF FieldSet
      <3>4. f.tag = "MODEL" => ~(f.value > S!MaxModel)
        BY <1>1, <3>1 DEF S!Refused
      <3>5. f.tag = "MODEL" => f.value <= S!MaxModel
        <4>1. f.value \in Nat
          BY <3>3, HostAssumption DEF HostAssumption, S!SaveStateAssumption
        <4>2. QED
          BY <3>4, <4>1 DEF S!MaxModel
      <3>6. cpu' \in [S!Tags -> Values] /\ cpu'["MODEL"] <= S!MaxModel
        <4>1. cpu' \in [S!Tags -> Values] /\ "MODEL" \in S!Tags
          BY <3>2, <3>3, SaveOrder
        <4>2. cpu'["MODEL"] = IF f.tag = "MODEL" THEN f.value ELSE cpu["MODEL"]
          BY <3>2, <3>3, <4>1
        <4>3. QED
          BY <3>3, <3>5, <4>1, <4>2
      <3>7. QED
        BY <3>6 DEF S!Context
    <2>3. QED
      BY <2>1, <2>2
  <1>4. p' \in Nat
    <2>1. fields[next].len \in Nat /\ p \in Nat
      BY <1>2, SaveTyped DEF FieldSet
    <2>2. QED
      BY <1>1, <2>1
  <1>5. next' \in 1 .. Len(fields') + 1
    BY <1>1, <1>2
  <1>6. S!TypeOK' /\ fields' \in Seq(FieldSet)
    BY <1>1, <1>3, <1>4, <1>5, SaveTyped, SaveTypes
  <1>7. Calls' /\ outcome' = "none"
    BY <1>1 DEF SaveInv, Calls
  <1>8. QED
    BY <1>6, <1>7, LayoutTaken, NoOutcome DEF SaveInv

\* The call ends, refused or at the end of the data.
LEMMA CallEndsKeeps ==
    ASSUME SaveInv, NEW result \in {"restored", "refused"}, CallEnds(result), latched' \in BOOLEAN,
           result = "refused" => p < length /\ S!Refused(fields[next]),
           result = "restored" => p >= length /\ latched' = FALSE
    PROVE  SaveInv'
  <1>1. /\ call = "deserialize" /\ cpu' = cpu
        /\ call' = "none" /\ p' = 0 /\ next' = 1 /\ outcome' = result
        /\ UNCHANGED <<header, fields, length, saves, stored, damage, before>>
    BY DEF CallEnds
  <1>2. Layout /\ damage \in {"none", "cut", "length", "model", "newer"} /\ fields # <<>>
    BY <1>1, Reading DEF SaveInv, Calls
  <1>3. next' \in 1 .. Len(fields') + 1
    BY <1>1, SaveTyped
  <1>4. S!TypeOK' /\ fields' \in Seq(FieldSet)
    BY <1>1, <1>3, SaveTyped, SaveTypes
  <1>5. Calls'
    BY <1>1, <1>2 DEF SaveInv, Calls
  <1>6. Layout'
    BY <1>1, <1>2, LayoutKept
  <1>7. result = "refused" => damage \in {"cut", "length", "model"}
    BY <1>1, <1>2, Reading
  <1>8. result = "restored" => damage \in {"none", "cut", "newer"}
    <2>1. ASSUME p >= length, damage \in {"length", "model"} PROVE FALSE
      <3>1. length = 146 /\ Parsing /\ next <= 13
        <4>1. CASE damage = "model"
          BY <1>1, <1>2, <4>1 DEF Layout, ModelLayout
        <4>2. CASE damage = "length"
          <5>1. PICK j \in 1..13 : Parsing /\ next <= j
            BY <1>1, <1>2, <4>2 DEF Layout, LengthLayout
          <5>2. next <= 13
            BY <5>1, SaveTyped
          <5>3. QED
            BY <1>2, <4>2, <5>1, <5>2 DEF Layout, LengthLayout
        <4>3. QED
          BY <2>1, <4>1, <4>2
      <3>2. next \in 1..13 /\ p = Offset[next]
        BY <3>1 DEF Parsing
      <3>3. p <= 140
        BY <3>2, SaveOffsets
      <3>4. QED
        BY <2>1, <3>1, <3>3, SaveTyped
    <2>2. QED
      BY <1>2, <2>1
  <1>9. result = "restored" /\ damage \in {"none", "newer"} => cpu = stored
    <2> SUFFICES ASSUME result = "restored", damage \in {"none", "newer"} PROVE Applied(13)
      BY AllApplied
    <2>1. CASE damage = "none"
      <3>1. length = 146 /\ next \in 1..14 /\ p = Offset[next] /\ Applied(next - 1)
        BY <1>1, <1>2, <2>1 DEF Layout, IntactLayout, Parsing
      <3>2. ~(next \in 1..13)
        <4> SUFFICES ASSUME next \in 1..13 PROVE FALSE
          OBVIOUS
        <4>1. p <= 140
          BY <3>1, SaveOffsets
        <4>2. QED
          BY <3>1, <4>1, SaveTyped
      <3>3. next - 1 = 13
        BY <3>1, <3>2
      <3>4. QED
        BY <3>1, <3>3
    <2>2. CASE damage = "newer"
      <3>1. PICK j \in 1..14, n \in {0, 3} : length = 148 + n /\ ParsingUnknown(j, n)
        BY <1>1, <1>2, <2>2 DEF Layout, NewerLayout
      <3>2. ~(next <= j)
        <4> SUFFICES ASSUME next <= j PROVE FALSE
          OBVIOUS
        <4>1. next \in 1..14 /\ p = Offset[next]
          BY <3>1 DEF ParsingUnknown
        <4>2. p <= 146
          BY <4>1, SaveOffsets
        <4>3. QED
          BY <3>1, <4>2, SaveTyped
      <3>3. next \in 2..15 /\ p = Offset[next - 1] + 2 + n /\ Applied(next - 2)
        BY <3>1, <3>2 DEF ParsingUnknown
      <3>4. next - 1 \notin 1..13
        <4> SUFFICES ASSUME next - 1 \in 1..13 PROVE FALSE
          OBVIOUS
        <4>1. Offset[next - 1] <= 140 /\ Offset[next - 1] \in Nat
          BY SaveOffsets
        <4>2. QED
          BY <3>1, <3>3, <4>1
      <3>5. next - 2 = 13
        BY <3>3, <3>4
      <3>6. QED
        BY <3>3, <3>5
    <2>3. QED
      BY <2>1, <2>2
  <1>10. RestoresOrRefuses'
    <2>1. result = "restored" => ~latched'
      BY Zenon
    <2>2. QED
      BY <1>1, <1>7, <1>8, <1>9, <2>1 DEF RestoresOrRefuses, S!RoundTrip, S!DamageRefused
  <1>11. AppliedIsPrefix'
    <2>1. PICK k \in 0..13 : Applied(k)
      BY <1>1, Reading
    <2>2. \A i \in 1..13 : cpu'[S!Order[i]] = (IF i <= k THEN stored' ELSE before')[S!Order[i]]
      BY <1>1, <2>1 DEF Applied
    <2>3. damage' # "header"
      BY <1>1, <1>2
    <2>4. QED
      BY <2>2, <2>3, SaveOrder DEF AppliedIsPrefix, S!AppliedIsPrefix
  <1>12. QED
    BY <1>4, <1>5, <1>6, <1>10, <1>11 DEF SaveInv

\* One turn of the loop, which takes a field or refuses the buffer.
LEMMA ParseFieldKeeps == SaveInv /\ S!ParseField => SaveInv'
  <1> SUFFICES ASSUME SaveInv, S!ParseField PROVE SaveInv'
    OBVIOUS
  <1>1. CASE S!Refused(fields[next]) /\ S!Return("refused") /\ UNCHANGED cpu
    <2>1. CallEnds("refused") /\ p < length /\ latched' = latched
      BY <1>1 DEF S!ParseField, CallEnds, S!Return, S!stored, S!history
    <2>2. QED
      BY <1>1, <2>1, CallEndsKeeps, SaveTyped
  <1>2. CASE TakesField
    BY <1>2, TakesFieldKeeps
  <1>3. QED
    BY <1>1, <1>2 DEF S!ParseField, TakesField, S!stored, S!history

\* The end of the loop: every field has been applied.
LEMMA RestoredSaveKeeps == SaveInv /\ S!Restored => SaveInv'
  <1> SUFFICES ASSUME SaveInv, S!Restored PROVE SaveInv'
    OBVIOUS
  <1>1. CallEnds("restored") /\ p >= length /\ latched' = FALSE
    BY DEF S!Restored, CallEnds, S!Return, S!stored, S!history
  <1>2. latched' \in BOOLEAN
    BY <1>1, Zenon
  <1>3. QED
    BY <1>1, <1>2, CallEndsKeeps

\* Every step of a save-state session keeps the invariant.
LEMMA SaveStep == SaveInv /\ [S!Next]_saveVars => SaveInv'
  BY SaveUnchanged, SerializeKeeps, WriteFieldKeeps, WrittenKeeps, DeserializeCallKeeps,
     ParseFieldKeeps, RestoredSaveKeeps, RunKeeps, TruncateKeeps, AddUnknownFieldKeeps,
     DamageFieldKeeps, DamageHeaderKeeps
  DEF S!Next

\* SaveInv holds throughout: whatever order of saves, runs, damages and restores.
THEOREM SaveInductive == HostSpec => []SaveInv
  <1>1. HostInit => SaveInv
    BY SaveStart, HostAssumption DEF HostInit
  <1>2. SaveInv /\ [HostNext]_hostVars => SaveInv'
    <2>1. [HostNext]_hostVars => [S!Next]_saveVars
      BY DEF HostNext, LoadSession, SaveSession, RunSession, hostVars
    <2>2. QED
      BY <2>1, SaveStep
  <1>3. QED
    BY <1>1, <1>2, PTL DEF HostSpec

\* m68k_deserialize restores every field of a state that m68k_serialize wrote,
\* with or without fields of a newer library between them, and refuses one with a
\* wrong header, field length or model number.
THEOREM StatesRestoreOrAreRefused == HostSpec => []RestoresOrRefuses
  <1>1. SaveInv => RestoresOrRefuses
    BY DEF SaveInv
  <1>2. QED
    BY <1>1, SaveInductive, PTL

\* What m68k_deserialize leaves of a refused or cut state is a prefix of the
\* stored fields over the old context.
THEOREM RefusalAppliesPrefix == HostSpec => []AppliedIsPrefix
  <1>1. SaveInv => AppliedIsPrefix
    BY DEF SaveInv
  <1>2. QED
    BY <1>1, SaveInductive, PTL

(***************************************************************************)
(* Least and greatest elements, and residues.                              *)
(***************************************************************************)
LEMMA NatLeast ==
    ASSUME NEW T, T \subseteq Nat, T # {}
    PROVE  \E x \in T : \A y \in T : x <= y
  <1>1. PICK x \in T : \A y \in T : ~(<<y, x>> \in OpToRel(<, Nat))
    BY NatLessThanWellFounded, WFMin, Zenon
  <1>2. \A y \in T : ~(y < x)
    BY <1>1 DEF OpToRel
  <1>3. QED
    BY <1>2

\* A nonempty set of numbers with a bound has a greatest one.
LEMMA NatGreatest ==
    ASSUME NEW N \in Nat, NEW T, T \subseteq 0..N, T # {}
    PROVE  \E x \in T : \A y \in T : x >= y
  <1>1. PICK D : D = {d \in 0..N : N - d \in T}
    OBVIOUS
  <1>2. PICK t \in T : TRUE
    OBVIOUS
  <1>3. N - t \in 0..N /\ N - (N - t) = t
    OBVIOUS
  <1>4. D \subseteq Nat /\ D # {}
    BY <1>1, <1>2, <1>3
  <1>5. PICK d \in D : \A y \in D : d <= y
    BY <1>4, NatLeast
  <1>6. N - d \in T /\ d \in 0..N
    BY <1>1, <1>5
  <1>7. ASSUME NEW y \in T PROVE N - d >= y
    <2>1. y \in 0..N /\ N - y \in 0..N /\ N - (N - y) = y
      OBVIOUS
    <2>2. N - y \in D
      BY <1>1, <2>1
    <2>3. d <= N - y
      BY <1>5, <2>2
    <2>4. QED
      BY <1>6, <2>1, <2>3
  <1>8. QED
    BY <1>6, <1>7

\* What Min of the community modules picks.
LEMMA MinIs ==
    ASSUME NEW T, T \subseteq Nat, T # {}
    PROVE  L!Min(T) \in T /\ \A y \in T : L!Min(T) <= y
  BY NatLeast DEF L!Min

\* What Max of the community modules picks.
LEMMA MaxIs ==
    ASSUME NEW N \in Nat, NEW T, T \subseteq 0..N, T # {}
    PROVE  L!Max(T) \in T /\ \A y \in T : L!Max(T) >= y
  BY NatGreatest DEF L!Max

\* The greatest element is the one Max picks.
LEMMA MaxEquals ==
    ASSUME NEW N \in Nat, NEW T, T \subseteq 0..N, NEW x \in T, \A y \in T : x >= y
    PROVE  L!Max(T) = x
  <1>1. L!Max(T) \in T /\ \A y \in T : L!Max(T) >= y
    BY MaxIs
  <1>2. PICK y : y = L!Max(T)
    OBVIOUS
  <1>3. y \in 0..N /\ x \in 0..N /\ y >= x /\ x >= y
    BY <1>1, <1>2
  <1>4. QED
    BY <1>2, <1>3

\* The remainder is determined by an equation.
LEMMA Residue ==
    ASSUME NEW m \in Nat \ {0}, NEW q \in Int, NEW r \in 0 .. m - 1, NEW x, x = m * q + r
    PROVE  x % m = r
  OBVIOUS

\* Every integer has a quotient and a remainder.
LEMMA Quotient ==
    ASSUME NEW m \in Nat \ {0}, NEW x \in Int
    PROVE  \E q \in Int : \E r \in 0 .. m - 1 : x = m * q + r /\ x % m = r
  <1>1. x = m * (x \div m) + (x % m) /\ x \div m \in Int /\ x % m \in 0 .. m - 1
    OBVIOUS
  <1>2. QED
    BY <1>1

\* The offset of a wrapped address.
LEMMA WrappedOffset ==
    ASSUME NEW m \in Nat \ {0}, NEW a \in Int, NEW k \in 0 .. m - 1
    PROVE  (((a + k) % m) - a) % m = k
  <1>1. PICK q \in Int, r \in 0 .. m - 1 : a + k = m * q + r /\ (a + k) % m = r
    <2>1. a + k \in Int
      OBVIOUS
    <2>2. QED
      BY <2>1, Quotient, Zenon
  <1>2. r - a = m * (0 - q) + k
    BY <1>1
  <1>3. (r - a) % m = k
    BY <1>2, Residue
  <1>4. QED
    BY <1>1, <1>3

\* Two offsets less than the modulus name different addresses.
LEMMA WrappedApart ==
    ASSUME NEW m \in Nat \ {0}, NEW a \in Int, NEW k \in 0 .. m - 1, NEW l \in 0 .. m - 1,
           (a + k) % m = (a + l) % m
    PROVE  k = l
  BY WrappedOffset, Zenon

\* An address wrapped to a multiple of the bus, then to the bus.
LEMMA WrappedTwice ==
    ASSUME NEW m \in Nat \ {0}, NEW n \in Nat \ {0}, n % m = 0, NEW x \in Int
    PROVE  (x % n) % m = x % m
  <1>1. PICK q \in Int, r \in 0 .. n - 1 : x = n * q + r /\ x % n = r
    BY Quotient
  <1>2. PICK t \in Int : n = m * t
    BY Quotient
  <1>3. PICK u \in Int, s \in 0 .. m - 1 : r = m * u + s /\ r % m = s
    <2>1. r \in Int
      OBVIOUS
    <2>2. QED
      BY <2>1, Quotient, Zenon
  <1>4. x = m * (t * q + u) + s
    BY <1>1, <1>2, <1>3
  <1>5. t * q + u \in Int
    OBVIOUS
  <1>6. x % m = s
    BY <1>4, <1>5, Residue
  <1>7. QED
    BY <1>1, <1>3, <1>6

\* The instance's Cardinality is the library's.
LEMMA SameCardinality == \A T : L!Cardinality(T) = Cardinality(T)
  BY DEF L!Cardinality, Cardinality

(***************************************************************************)
(* Lines.                                                                  *)
(***************************************************************************)
LEMMA LoaderConstants ==
    /\ LoaderBusMod \in Nat \ {0} /\ AddrMod \in Nat \ {0} /\ AddrMod % LoaderBusMod = 0
    /\ MemSizes \subseteq Nat /\ Start \subseteq 0 .. AddrMod - 1
    /\ SrecLines \cup {<<>>} \subseteq Seq(L!LineSet) /\ IhexLines \cup {<<>>} \subseteq Seq(L!LineSet)
    /\ MaxLoads \in Nat /\ MaxLines \in Nat
  <1>1. <<>> \in Seq(L!LineSet)
    OBVIOUS
  <1>2. QED
    BY <1>1, HostAssumption DEF L!LoaderAssumption, L!TextLines

\* A sequence joined to another.
LEMMA JoinFacts ==
    ASSUME NEW T, NEW u \in Seq(T), NEW v \in Seq(T)
    PROVE  /\ u \o v \in Seq(T) /\ Len(u \o v) = Len(u) + Len(v)
           /\ \A i \in 1..Len(u) : (u \o v)[i] = u[i]
  OBVIOUS

\* The types of the parts of a line.
LEMMA LineFacts ==
    ASSUME NEW l \in L!LineSet
    PROVE  /\ l.len \in Nat /\ l.type \in 0..255 /\ l.count \in 0..255 /\ l.addr \in 0 .. AddrMod - 1
           /\ l.words[1] \in Nat /\ l.words[2] \in Nat
  BY DEF L!LineSet

\* fgets returns the part it stands at, cut to the buffer.
Cut(l, buffer) == [l EXCEPT !.len = L!Min({@, buffer - 1})]

LEMMA FgetsCuts ==
    \A s, buffer, l : l = (file \o s)[position + 1] => L!Fgets(s, buffer) = Cut(l, buffer)
  BY DEF L!Fgets, Cut

\* Only the length of a part is changed.
LEMMA CutFacts ==
    ASSUME NEW l \in L!LineSet, NEW buffer \in Nat \ {0}, NEW r, r = Cut(l, buffer)
    PROVE  /\ r.mark = l.mark /\ r.hex = l.hex /\ r.sum = l.sum /\ r.type = l.type
           /\ r.count = l.count /\ r.addr = l.addr /\ r.words = l.words
           /\ r.len = IF l.len <= buffer - 1 THEN l.len ELSE buffer - 1
  <1>1. l.len \in Nat
    BY LineFacts
  <1>2. PICK m : m = L!Min({l.len, buffer - 1})
    OBVIOUS
  <1>3. m \in {l.len, buffer - 1} /\ \A y \in {l.len, buffer - 1} : m <= y
    <2>1. {l.len, buffer - 1} \subseteq Nat /\ {l.len, buffer - 1} # {}
      BY <1>1
    <2>2. QED
      BY <1>2, <2>1, MinIs
  <1>4. m = IF l.len <= buffer - 1 THEN l.len ELSE buffer - 1
    BY <1>1, <1>3
  <1>5. r = [l EXCEPT !.len = m]
    BY <1>2 DEF Cut
  <1>6. r.len = m
    BY <1>5 DEF L!LineSet
  <1>7. /\ r.mark = l.mark /\ r.hex = l.hex /\ r.sum = l.sum /\ r.type = l.type
        /\ r.count = l.count /\ r.addr = l.addr /\ r.words = l.words
    BY <1>5 DEF L!LineSet
  <1>8. QED
    BY <1>4, <1>6, <1>7

\* An S-record is judged as in the file when it fits the line buffer, and is none
\* when it does not.
LEMMA SrecSame ==
    ASSUME NEW l \in L!LineSet, NEW r, r = Cut(l, L!SrecBuffer)
    PROVE  L!SrecTaken(r) <=> L!SrecTaken(l) /\ l.count <= L!LongestSrec
  <1>1. /\ r.mark = l.mark /\ r.hex = l.hex /\ r.sum = l.sum /\ r.type = l.type /\ r.count = l.count
        /\ r.len = IF l.len <= 511 THEN l.len ELSE 511
    BY CutFacts DEF L!SrecBuffer
  <1>2. l.len \in Nat /\ l.count \in Nat
    BY LineFacts
  <1>3. /\ r.len >= 4 <=> l.len >= 4
        /\ r.len >= 4 + 2 * r.count <=> l.len >= 4 + 2 * l.count /\ l.count <= 253
    BY <1>1, <1>2
  <1>4. QED
    BY <1>1, <1>3 DEF L!SrecTaken, L!LongestSrec

\* An Intel HEX record always fits.
LEMMA IhexSame ==
    ASSUME NEW l \in L!LineSet, NEW r, r = Cut(l, L!IhexBuffer)
    PROVE  (L!IhexTaken(r) <=> L!IhexTaken(l)) /\ L!Operand(r) = L!Operand(l)
  <1>1. /\ r.mark = l.mark /\ r.hex = l.hex /\ r.sum = l.sum /\ r.type = l.type /\ r.count = l.count
        /\ r.words = l.words /\ r.len = IF l.len <= 599 THEN l.len ELSE 599
    BY CutFacts DEF L!IhexBuffer
  <1>2. l.len \in Nat /\ l.count \in 0..255
    BY LineFacts
  <1>3. (r.len >= 11 <=> l.len >= 11) /\ (r.len >= 11 + 2 * r.count <=> l.len >= 11 + 2 * l.count)
    BY <1>1, <1>2
  <1>4. QED
    BY <1>1, <1>3 DEF L!IhexTaken, L!Operand

\* The data bytes of an S-record that is taken.
LEMMA SrecLength ==
    ASSUME NEW l \in L!LineSet, L!SrecTaken(l)
    PROVE  l.count - L!AddrLen(l.type) - 1 \in 0..255
  <1>1. l.type \in {0, 1, 2, 3, 7, 8, 9} /\ l.count >= L!AddrLen(l.type) + 1 /\ l.count \in 0..255
    BY LineFacts DEF L!SrecTaken
  <1>2. L!AddrLen(l.type) \in {2, 3, 4}
    BY <1>1 DEF L!AddrLen
  <1>3. QED
    BY <1>1, <1>2

\* The address an Intel HEX record carries is an address.
LEMMA OperandType ==
    ASSUME NEW l \in L!LineSet
    PROVE  L!Operand(l) \in 0 .. AddrMod - 1
  <1>1. l.words[1] \in Nat /\ l.words[2] \in Nat /\ AddrMod \in Nat \ {0}
    BY LineFacts, LoaderConstants
  <1>2. PICK n \in Int : L!Operand(l) = n % AddrMod
    <2>1. l.words[1] * (IF l.type \in {2, 3} THEN 16 ELSE 65536) \in Int
      BY <1>1
    <2>2. l.words[1] * (IF l.type \in {2, 3} THEN 16 ELSE 65536)
              + (IF l.type \in {3, 5} THEN l.words[2] ELSE 0) \in Int
      BY <1>1, <2>1
    <2>3. QED
      BY <2>2 DEF L!Operand
  <1>3. QED
    BY <1>1, <1>2

(***************************************************************************)
(* Storing a record.                                                       *)
(***************************************************************************)
\* The bytes of n at address a that memory holds, up to the first it does not.
Held(a, n) == {k \in 0 .. n - 1 : \A j \in 0..k : L!InMemory(a + j)}
Places(a, n) == {(a + k) % LoaderBusMod : k \in Held(a, n)}

\* StoreRecord stops at the first byte outside memory.
LEMMA StoredIndexes ==
    ASSUME NEW a \in Nat, NEW n \in Nat
    PROVE  0 .. L!Min({i \in 0 .. n - 1 : ~L!InMemory(a + i)} \cup {n}) - 1 = Held(a, n)
  <1>1. PICK m : m = L!Min({i \in 0 .. n - 1 : ~L!InMemory(a + i)} \cup {n})
    OBVIOUS
  <1>2. PICK T : T = {i \in 0 .. n - 1 : ~L!InMemory(a + i)} \cup {n}
    OBVIOUS
  <1>3. T \subseteq Nat /\ T # {}
    BY <1>2
  <1>4. m \in T /\ \A y \in T : m <= y
    BY <1>1, <1>2, <1>3, MinIs
  <1>5. m \in 0..n
    BY <1>2, <1>3, <1>4
  <1>6. ASSUME NEW k \in 0 .. m - 1 PROVE k \in Held(a, n)
    <2>1. k \in 0 .. n - 1
      BY <1>5
    <2>2. ASSUME NEW j \in 0..k PROVE L!InMemory(a + j)
      <3>1. j \in 0 .. n - 1 /\ ~(m <= j)
        BY <1>5, <2>1
      <3>2. j \notin T
        BY <1>4, <3>1
      <3>3. QED
        BY <1>2, <3>1, <3>2
    <2>3. QED
      BY <2>1, <2>2 DEF Held
  <1>7. ASSUME NEW k \in Held(a, n) PROVE k \in 0 .. m - 1
    <2>1. k \in 0 .. n - 1 /\ \A j \in 0..k : L!InMemory(a + j)
      BY DEF Held
    <2>2. SUFFICES ASSUME m <= k PROVE FALSE
      BY <1>5, <2>1
    <2>3. m \in 0..k /\ m # n
      BY <1>5, <2>1, <2>2
    <2>4. ~L!InMemory(a + m)
      BY <1>2, <1>4, <2>3
    <2>5. QED
      BY <2>1, <2>3, <2>4
  <1>8. QED
    BY <1>1, <1>6, <1>7

\* Nothing is stored outside bound memory.
LEMMA PlacesInMemory ==
    ASSUME NEW a \in Nat, NEW n \in Nat, memory_size \in Nat
    PROVE  Places(a, n) \subseteq 0 .. memory_size - 1
  <1> SUFFICES ASSUME NEW k \in Held(a, n) PROVE (a + k) % LoaderBusMod \in 0 .. memory_size - 1
    BY DEF Places
  <1>1. k \in 0 .. n - 1 /\ L!InMemory(a + k)
    BY DEF Held
  <1>2. (a + k) % LoaderBusMod \in Nat
    BY <1>1, LoaderConstants
  <1>3. QED
    BY <1>1, <1>2 DEF L!InMemory

(***************************************************************************)
(* Reading one more line of a record file.                                 *)
(***************************************************************************)
RecordFile ==
    format \in {"srec", "ihex"} /\ file \in Seq(L!LineSet) /\ position \in 0..Len(file)
Appends(l) ==
    /\ file' \in Seq(L!LineSet) /\ position' = position + 1 /\ position' <= Len(file')
    /\ file'[position + 1] = l /\ \A i \in 1..position : file'[i] = file[i]
    /\ UNCHANGED <<memory_size, format, address, loads, oldImage, oldEntry>>

\* The parts of a file that were read; a binary file counts as one.
Done == IF format = "bin" THEN {1} ELSE 1..position

\* The parts of a file of which one more was read.
LEMMA AppendedFile ==
    ASSUME NEW l \in L!LineSet, RecordFile, Appends(l)
    PROVE  /\ file' \in Seq(L!LineSet) /\ position' = position + 1 /\ file'[position + 1] = l
           /\ position' \in 0..Len(file')
           /\ \A i \in 1..position : file'[i] = file[i] /\ file[i] \in L!LineSet
           /\ position \in Nat /\ Done = 1..position /\ Done' = 1 .. position + 1
  <1>1. Len(file) \in Nat /\ Len(file') \in Nat /\ position \in Nat
    BY DEF RecordFile, Appends
  <1>2. \A i \in 1..position : i \in 1..Len(file)
    BY <1>1 DEF RecordFile
  <1>3. \A i \in 1..position : file[i] \in L!LineSet
    BY <1>2 DEF RecordFile
  <1>4. Done = 1..position /\ Done' = 1 .. position + 1
    BY DEF Done, RecordFile, Appends
  <1>5. QED
    BY <1>1, <1>3, <1>4 DEF Appends

\* Reading a line changes neither the format nor the size of memory.
LEMMA AppendedMeaning ==
    ASSUME NEW l, Appends(l)
    PROVE  /\ \A x : L!Taken(x)' = L!Taken(x) /\ L!Ends(x)' = L!Ends(x) /\ L!SetsBase(x)' = L!SetsBase(x)
           /\ \A x : L!InMemory(x)' = L!InMemory(x)
           /\ \A a, n : Places(a, n)' = Places(a, n)
  <1>1. \A x : L!Taken(x)' = L!Taken(x)
    BY DEF Appends, L!Taken
  <1>2. \A x : L!Ends(x)' = L!Ends(x) /\ L!SetsBase(x)' = L!SetsBase(x)
    BY <1>1 DEF Appends, L!Ends, L!SetsBase
  <1>3. \A x : L!InMemory(x)' = L!InMemory(x)
    BY DEF Appends, L!InMemory
  <1>4. \A a, n : Held(a, n)' = Held(a, n)
    BY <1>3 DEF Held
  <1>5. \A a, n : Places(a, n)' = Places(a, n)
    BY <1>4 DEF Places
  <1>6. QED
    BY <1>1, <1>2, <1>3, <1>5

\* The base records before a line, and the base they set.
Bases(i) == {j \in 1 .. i - 1 : L!SetsBase(file[j])}

\* The base in force at a line is the one set last before it.
LEMMA BaseIs == \A i : L!BaseAt(i) = IF Bases(i) = {} THEN 0 ELSE L!Operand(file[L!Max(Bases(i))])
  BY DEF L!BaseAt, Bases

\* Reading a line does not change the base of the lines before it.
LEMMA BaseKept ==
    ASSUME NEW l \in L!LineSet, RecordFile, Appends(l), NEW i \in 1 .. position + 1
    PROVE  L!BaseAt(i)' = L!BaseAt(i)
  <1>1. \A j \in 1 .. i - 1 : j \in 1..position
    BY DEF RecordFile
  <1>2. \A j \in 1 .. i - 1 : file'[j] = file[j]
    BY <1>1, AppendedFile
  <1>3. Bases(i)' = Bases(i)
    BY <1>2, AppendedMeaning DEF Bases
  <1>4. Bases(i) # {} => L!Max(Bases(i)) \in 1 .. i - 1
    <2> SUFFICES ASSUME Bases(i) # {} PROVE L!Max(Bases(i)) \in Bases(i)
      BY DEF Bases
    <2>1. Bases(i) \subseteq 0..i /\ i \in Nat
      BY DEF Bases
    <2>2. QED
      BY <2>1, MaxIs
  <1>5. L!BaseAt(i)' = IF Bases(i)' = {} THEN 0 ELSE L!Operand(file'[L!Max(Bases(i)')])
    BY BaseIs DEF L!BaseAt, Bases
  <1>6. QED
    BY <1>2, <1>3, <1>4, <1>5, BaseIs

\* The base after a line is the one it sets, or the one it found.
LEMMA BaseNext ==
    ASSUME NEW l \in L!LineSet, RecordFile, Appends(l), NEW n, n = position + 1
    PROVE  L!BaseAt(n + 1)' = IF L!SetsBase(l) THEN L!Operand(l) ELSE L!BaseAt(n)
  <1>1. n \in Nat /\ n \in 1 .. (n + 1) - 1 /\ file'[n] = l /\ position \in Nat /\ n = position + 1
    BY AppendedFile
  <1>2. \A j \in 1 .. (n + 1) - 1 : j = n \/ j \in 1 .. n - 1
    BY <1>1
  <1>3. \A j \in 1 .. n - 1 : j \in 1 .. (n + 1) - 1 /\ j # n /\ j \in 1..position
    BY <1>1
  <1>4. \A j \in 1 .. n - 1 : file'[j] = file[j]
    BY <1>3, AppendedFile
  <1>5. Bases(n + 1)' = IF L!SetsBase(l) THEN Bases(n) \cup {n} ELSE Bases(n)
    BY <1>1, <1>2, <1>3, <1>4, AppendedMeaning DEF Bases
  <1>6. L!BaseAt(n + 1)' = IF Bases(n + 1)' = {} THEN 0 ELSE L!Operand(file'[L!Max(Bases(n + 1)')])
    BY DEF L!BaseAt, Bases
  <1>7. Bases(n) \subseteq 1 .. n - 1
    BY DEF Bases
  <1>8. CASE L!SetsBase(l)
    <2>1. PICK T : T = Bases(n) \cup {n}
      OBVIOUS
    <2>2. T \subseteq 0..n /\ n \in T /\ \A y \in T : n >= y
      BY <1>1, <1>7, <2>1
    <2>3. L!Max(T) = n
      BY <1>1, <2>2, MaxEquals
    <2>4. Bases(n + 1)' = T /\ T # {}
      BY <1>5, <1>8, <2>1
    <2>5. QED
      BY <1>1, <1>6, <1>8, <2>3, <2>4
  <1>9. CASE ~L!SetsBase(l)
    <2>1. Bases(n + 1)' = Bases(n)
      BY <1>5, <1>9
    <2>2. Bases(n) # {} => L!Max(Bases(n)) \in 1 .. n - 1
      <3> SUFFICES ASSUME Bases(n) # {} PROVE L!Max(Bases(n)) \in Bases(n)
        BY <1>7
      <3>1. Bases(n) \subseteq 0..n
        BY <1>1, <1>7
      <3>2. QED
        BY <1>1, <3>1, MaxIs
    <2>3. QED
      BY <1>4, <1>6, <1>9, <2>1, <2>2, BaseIs
  <1>10. QED
    BY <1>8, <1>9

\* The addresses a record covers are those its data takes.
LEMMA CoversIs == \A i : L!Covers(i) = Places(L!DataAt(i), L!DataLen(i))
  BY DEF L!Covers, Places, Held

\* The earlier lines mean what they meant.
LEMMA CoversKept ==
    ASSUME NEW l \in L!LineSet, RecordFile, Appends(l), NEW i \in 1..position
    PROVE  L!Covers(i)' = L!Covers(i) /\ L!DataAt(i)' = L!DataAt(i)
  <1>1. file'[i] = file[i] /\ format' = format /\ format \in {"srec", "ihex"} /\ i \in 1 .. position + 1
    BY AppendedFile DEF RecordFile, Appends
  <1>2. L!DataAt(i)' = L!DataAt(i)
    BY <1>1, BaseKept DEF L!DataAt
  <1>3. L!Taken(file[i])' = L!Taken(file[i])
    BY <1>1 DEF L!Taken
  <1>4. L!DataLen(i)' = L!DataLen(i)
    BY <1>1, <1>3 DEF L!DataLen
  <1>5. L!Covers(i)' = L!Covers(i)
    BY <1>2, <1>4 DEF Appends, L!Covers, L!InMemory
  <1>6. QED
    BY <1>2, <1>5

(***************************************************************************)
(* What memory holds while a file is read: at every address the byte of    *)
(* the last line that covers it, and elsewhere what was there before.      *)
(***************************************************************************)
Covered(a) == \E i \in Done : a \in L!Covers(i)
LastAt(a, i) ==
    /\ i \in Done /\ a \in L!Covers(i)
    /\ \A j \in Done : a \in L!Covers(j) => j <= i
ImageSays ==
    /\ \A a : a \in DOMAIN image <=> (a \in DOMAIN oldImage \/ Covered(a))
    /\ \A a \in DOMAIN image : ~Covered(a) => image[a] = oldImage[a]
    /\ \A a, i : LastAt(a, i) => image[a] = <<loads, i, (a - L!DataAt(i)) % LoaderBusMod>>

\* It is what ImageIsFile says of a file that is closed.
LEMMA ImageSaid ==
    ASSUME ImageSays, L!Effective = Done, NEW N \in Nat, Done \subseteq 0..N
    PROVE  L!ImageIsFile
  <1>1. PICK cov : cov = [i \in Done |-> L!Covers(i)]
    OBVIOUS
  <1>2. DOMAIN cov = Done /\ \A i \in Done : cov[i] = L!Covers(i)
    BY <1>1
  <1>3. /\ UNION L!Range(cov) = {a \in UNION L!Range(cov) : Covered(a)}
        /\ \A a : Covered(a) => a \in UNION L!Range(cov)
    BY <1>2 DEF Covered, L!Range
  <1>4. DOMAIN image = DOMAIN oldImage \cup UNION L!Range(cov)
    <2>1. \A a : a \in UNION L!Range(cov) <=> Covered(a)
      BY <1>3
    <2>2. \A a : a \in DOMAIN image <=> a \in DOMAIN oldImage \cup UNION L!Range(cov)
      BY <2>1 DEF ImageSays
    <2>3. QED
      BY <2>2
  <1>5. ASSUME NEW a \in DOMAIN image, NEW from, from = {i \in Done : a \in cov[i]}
        PROVE  image[a] = IF from = {} THEN oldImage[a]
                          ELSE <<loads, L!Max(from), (a - L!DataAt(L!Max(from))) % LoaderBusMod>>
    <2>1. \A i : i \in from <=> i \in Done /\ a \in L!Covers(i)
      BY <1>2, <1>5
    <2>2. CASE from = {}
      <3>1. ~Covered(a)
        BY <2>1, <2>2 DEF Covered
      <3>2. QED
        BY <2>2, <3>1 DEF ImageSays
    <2>3. CASE from # {}
      <3>1. PICK m : m = L!Max(from)
        OBVIOUS
      <3>2. m \in from /\ \A y \in from : m >= y
        <4>1. from \subseteq 0..N
          BY <2>1
        <4>2. QED
          BY <2>3, <3>1, <4>1, MaxIs
      <3>3. LastAt(a, m)
        <4>1. ASSUME NEW j \in Done, a \in L!Covers(j) PROVE j <= m
          <5>1. j \in from
            BY <2>1, <4>1
          <5>2. j \in 0..N /\ m \in 0..N
            BY <2>1, <3>2
          <5>3. QED
            BY <3>2, <5>1, <5>2
        <4>2. QED
          BY <2>1, <3>2, <4>1 DEF LastAt
      <3>4. image[a] = <<loads, m, (a - L!DataAt(m)) % LoaderBusMod>>
        BY <3>3 DEF ImageSays
      <3>5. QED
        BY <2>3, <3>1, <3>4
    <2>4. QED
      BY <2>2, <2>3
  <1>6. QED
    BY <1>1, <1>4, <1>5 DEF L!ImageIsFile

\* A line whose data lies at the places W.
StoresAt(W, a, n) ==
    image' = [x \in DOMAIN image \cup W |->
                 IF x \in W THEN <<loads, n, (x - a) % LoaderBusMod>> ELSE image[x]]

\* A record stored over the image of the lines before it gives the image of all.
LEMMA ImageAppended ==
    ASSUME NEW l \in L!LineSet, RecordFile, Appends(l), ImageSays,
           Done = 1..position, NEW n, n = position + 1, Done' = 1..n,
           NEW W, W = L!Covers(n)', NEW a, a = L!DataAt(n)', StoresAt(W, a, n)
    PROVE  ImageSays'
  <1>1. /\ n \in Nat /\ n \in 1..n /\ n \notin 1..position
        /\ \A i \in 1..n : i = n \/ i \in 1..position
        /\ \A i \in 1..position : i \in 1..n
    BY AppendedFile
  <1>2. \A i \in 1..position : i \in 1..n /\ L!Covers(i)' = L!Covers(i) /\ L!DataAt(i)' = L!DataAt(i)
    BY <1>1, CoversKept
  <1>3. \A x : Covered(x)' <=> (Covered(x) \/ x \in W)
    BY <1>1, <1>2 DEF Covered
  <1>4. /\ DOMAIN image' = DOMAIN image \cup W
        /\ \A x \in DOMAIN image' :
              image'[x] = IF x \in W THEN <<loads, n, (x - a) % LoaderBusMod>> ELSE image[x]
    BY DEF StoresAt
  <1>5. oldImage' = oldImage /\ loads' = loads
    BY DEF Appends
  <1>6. \A x : x \in DOMAIN image' <=> (x \in DOMAIN oldImage' \/ Covered(x)')
    BY <1>3, <1>4, <1>5 DEF ImageSays
  <1>7. ASSUME NEW x \in DOMAIN image', ~(Covered(x)') PROVE image'[x] = oldImage'[x]
    <2>1. x \notin W /\ ~Covered(x)
      BY <1>3, <1>7
    <2>2. x \in DOMAIN image /\ image'[x] = image[x]
      BY <1>4, <2>1
    <2>3. QED
      BY <1>5, <2>1, <2>2 DEF ImageSays
  <1>8. ASSUME NEW x, NEW i, LastAt(x, i)'
        PROVE  image'[x] = <<loads', i, (x - L!DataAt(i)') % LoaderBusMod>>
    <2>1. i \in 1..n /\ x \in L!Covers(i)' /\ \A j \in 1..n : x \in L!Covers(j)' => j <= i
      BY <1>8 DEF LastAt
    <2>2. CASE x \in W
      <3>1. n <= i
        BY <1>1, <2>1, <2>2
      <3>2. i = n
        BY <1>1, <2>1, <3>1
      <3>3. QED
        BY <1>4, <1>5, <2>2, <3>2
    <2>3. CASE x \notin W
      <3>1. i # n
        BY <2>1, <2>3
      <3>2. i \in 1..position
        BY <1>1, <2>1, <3>1
      <3>3. LastAt(x, i)
        BY <1>2, <2>1, <3>2 DEF LastAt
      <3>4. Covered(x)
        BY <3>3 DEF LastAt, Covered
      <3>5. x \in DOMAIN image /\ image'[x] = image[x]
        BY <1>4, <2>3, <3>4 DEF ImageSays
      <3>6. QED
        BY <1>2, <1>5, <3>2, <3>3, <3>5 DEF ImageSays
    <2>4. QED
      BY <2>2, <2>3
  <1>9. QED
    BY <1>6, <1>7, <1>8 DEF ImageSays

\* A line without data.
LEMMA ImageKept ==
    ASSUME NEW l \in L!LineSet, RecordFile, Appends(l), ImageSays,
           Done = 1..position, NEW n, n = position + 1, Done' = 1..n,
           L!Covers(n)' = {}, image' = image
    PROVE  ImageSays'
  <1>1. /\ n \in Nat /\ n \in 1..n /\ n \notin 1..position
        /\ \A i \in 1..n : i = n \/ i \in 1..position
        /\ \A i \in 1..position : i \in 1..n
    BY AppendedFile
  <1>2. \A i \in 1..position : i \in 1..n /\ L!Covers(i)' = L!Covers(i) /\ L!DataAt(i)' = L!DataAt(i)
    BY <1>1, CoversKept
  <1>3. \A x : Covered(x)' <=> Covered(x)
    BY <1>1, <1>2 DEF Covered
  <1>4. \A x, i : LastAt(x, i)' => LastAt(x, i) /\ i \in 1..position
    BY <1>1, <1>2 DEF LastAt
  <1>5. oldImage' = oldImage /\ loads' = loads
    BY DEF Appends
  <1>6. QED
    BY <1>2, <1>3, <1>4, <1>5 DEF ImageSays

(***************************************************************************)
(* The invariant of the loaders.                                           *)
(***************************************************************************)
Starts ==
    {i \in Done : /\ L!Taken(file[i])
                         /\ IF format = "srec" THEN file[i].type \in 7..9
                            ELSE file[i].type \in {3, 5} /\ file[i].count = 4}
EntrySays ==
    entry = IF Starts = {} THEN oldEntry
            ELSE IF format = "srec" THEN file[L!Min(Starts)].addr ELSE L!Operand(file[L!Max(Starts)])

\* Every byte stored names the load it comes from.
Stamped ==
    /\ \A a \in DOMAIN image : image[a][1] \in Nat /\ image[a][1] <= loads
    /\ loads > 0 => \A a \in DOMAIN oldImage : oldImage[a][1] \in Nat /\ oldImage[a][1] < loads
Fresh == {a \in DOMAIN image : image[a][1] = loads}

\* m68k_load_bin has stored every byte it has read.
BinSays ==
    /\ current_addr = (address + Len(file)) % AddrMod
    /\ \A k \in 0 .. Len(file) - 1 : L!InMemory(address + k)
    /\ IsFiniteSet(Fresh) /\ Cardinality(Fresh) = Len(file)

FileInv ==
    /\ loads > 0 <=> format # "none"
    /\ open => loads > 0
    /\ format \in {"srec", "ihex"} => file \in Seq(L!LineSet)
    /\ format = "bin" => file \in Seq({"byte"}) /\ position = Len(file) /\ Len(file) <= linesRead
    /\ format \in {"srec", "ihex"} =>
          /\ \A j \in 1 .. position - 1 : ~L!Ends(file[j])
          /\ position > 0 /\ L!Ends(file[position]) => ~open
          /\ ~open => position = Len(file) \/ (position > 0 /\ L!Ends(file[position]))
    /\ open /\ format = "ihex" => base = L!BaseAt(position + 1)

LoadInv ==
    /\ L!TypeOK /\ FileInv /\ Stamped
    /\ loads > 0 => ImageSays
    /\ format \in {"srec", "ihex"} => EntrySays
    /\ open /\ format = "bin" => BinSays
    /\ L!SizeIsStored

\* The types of the loader's variables.
LEMMA LoadTyped ==
    ASSUME LoadInv
    PROVE  /\ memory_size \in MemSizes /\ memory_size \in Nat
           /\ DOMAIN image \subseteq 0 .. memory_size - 1
           /\ entry \in 0 .. AddrMod - 1 /\ base \in 0 .. AddrMod - 1
           /\ format \in {"none", "srec", "ihex", "bin"} /\ open \in BOOLEAN
           /\ address \in 0 .. AddrMod - 1 /\ current_addr \in 0 .. AddrMod - 1
           /\ size_out \in 0 .. AddrMod - 1
           /\ loads \in 0..MaxLoads /\ loads \in Nat /\ linesRead \in 0..MaxLines
           /\ position \in 0..Len(file)
  BY LoaderConstants DEF LoadInv, L!TypeOK

\* The type of the next state, from the types of its variables.
LEMMA LoadTypes ==
    ASSUME memory_size' \in MemSizes, DOMAIN image' \subseteq 0 .. memory_size' - 1,
           entry' \in 0 .. AddrMod - 1, base' \in 0 .. AddrMod - 1,
           format' \in {"none", "srec", "ihex", "bin"}, open' \in BOOLEAN,
           address' \in 0 .. AddrMod - 1, current_addr' \in 0 .. AddrMod - 1,
           size_out' \in 0 .. AddrMod - 1, loads' \in 0..MaxLoads, linesRead' \in 0..MaxLines,
           position' \in 0..Len(file')
    PROVE  L!TypeOK'
  BY DEF L!TypeOK

\* One more part of an open file: the rest of its last line, or the next line.
LEMMA RecordRead ==
    ASSUME LoadInv, NEW s \in Seq(L!LineSet), format \in {"srec", "ihex"}, L!Read(s), UNCHANGED L!bin,
           NEW l, l = (file \o s)[position + 1]
    PROVE  /\ l \in L!LineSet /\ RecordFile /\ Appends(l) /\ open /\ loads > 0
           /\ ImageSays /\ EntrySays /\ Done = 1..position /\ Done' = 1 .. position + 1
           /\ linesRead' \in 0..MaxLines
           /\ UNCHANGED <<memory_size, format, loads, oldImage, oldEntry, address, current_addr, size_out>>
           /\ \A j \in 1..position : ~L!Ends(file[j])
           /\ format = "ihex" => base = L!BaseAt(position + 1)
  <1>1. /\ open /\ file' = file \o s /\ position' = position + 1
        /\ IF position < Len(file) THEN s = <<>> /\ linesRead' = linesRead
           ELSE s # <<>> /\ linesRead < MaxLines /\ linesRead' = linesRead + 1
        /\ UNCHANGED <<memory_size, format, loads, oldImage, oldEntry>>
    BY DEF L!Read, L!Advance
  <1>2. UNCHANGED <<address, current_addr, size_out>>
    BY DEF L!bin
  <1>3. /\ loads > 0 /\ file \in Seq(L!LineSet) /\ position \in 0..Len(file) /\ linesRead \in 0..MaxLines
        /\ format = "ihex" => base = L!BaseAt(position + 1)
    BY <1>1, LoadTyped DEF LoadInv, FileInv
  <1>4. ImageSays /\ EntrySays
    BY <1>3 DEF LoadInv
  <1>5. /\ file' \in Seq(L!LineSet) /\ Len(file) \in Nat /\ Len(s) \in Nat /\ position \in Nat
        /\ Len(file') = Len(file) + Len(s) /\ \A i \in 1..Len(file) : file'[i] = file[i]
    <2>1. /\ file \o s \in Seq(L!LineSet) /\ Len(file \o s) = Len(file) + Len(s)
          /\ \A i \in 1..Len(file) : (file \o s)[i] = file[i]
      BY <1>3, JoinFacts
    <2>2. Len(file) \in Nat /\ Len(s) \in Nat
      BY <1>3
    <2>3. position \in Nat
      BY <1>3, <2>2
    <2>4. QED
      BY <1>1, <2>1, <2>2, <2>3
  <1>6. position + 1 <= Len(file')
    <2>1. CASE position < Len(file)
      BY <1>5, <2>1
    <2>2. CASE ~(position < Len(file))
      <3>1. s # <<>>
        BY <1>1, <2>2
      <3>2. Len(s) > 0
        BY <1>5, <3>1
      <3>3. QED
        BY <1>3, <1>5, <2>2, <3>2
    <2>3. QED
      BY <2>1, <2>2
  <1>7. l \in L!LineSet /\ file'[position + 1] = l
    <2>1. position + 1 \in 1..Len(file')
      BY <1>5, <1>6
    <2>2. QED
      BY <1>1, <1>5, <2>1
  <1>8. \A i \in 1..position : file'[i] = file[i]
    <2>1. \A i \in 1..position : i \in 1..Len(file)
      BY <1>3, <1>5
    <2>2. QED
      BY <1>5, <2>1
  <1>9. RecordFile /\ Appends(l)
    BY <1>1, <1>2, <1>3, <1>5, <1>6, <1>7, <1>8 DEF RecordFile, Appends
  <1>10. linesRead' \in 0..MaxLines
    BY <1>1, <1>3, LoaderConstants
  <1>11. ASSUME NEW j \in 1..position PROVE ~L!Ends(file[j])
    <2>1. j \in 1 .. position - 1 \/ j = position
      BY <1>5
    <2>2. position > 0
      BY <1>5
    <2>3. QED
      BY <1>1, <2>1, <2>2 DEF LoadInv, FileInv
  <1>12. Done = 1..position /\ Done' = 1 .. position + 1
    BY <1>7, <1>9, AppendedFile
  <1>13. QED
    BY <1>1, <1>2, <1>3, <1>4, <1>7, <1>9, <1>10, <1>11, <1>12

\* What the new line covers.
LEMMA NewCovers ==
    ASSUME NEW l \in L!LineSet, RecordFile, Appends(l), NEW n, n = position + 1
    PROVE  /\ L!DataAt(n)' = IF format = "srec" THEN l.addr ELSE L!BaseAt(n) + l.addr
           /\ L!DataLen(n)' = IF format = "srec"
                              THEN IF L!Taken(l) /\ l.type \in 1..3
                                   THEN l.count - L!AddrLen(l.type) - 1 ELSE 0
                              ELSE IF L!Taken(l) /\ l.type = 0 THEN l.count ELSE 0
           /\ \A a, d : L!DataAt(n)' = a /\ L!DataLen(n)' = d => L!Covers(n)' = Places(a, d)
  <1>1. file'[n] = l /\ format' = format /\ format \in {"srec", "ihex"} /\ n \in 1 .. position + 1
    BY AppendedFile DEF RecordFile, Appends
  <1>2. L!BaseAt(n)' = L!BaseAt(n)
    BY <1>1, BaseKept
  <1>3. L!DataAt(n)' = IF format = "srec" THEN l.addr ELSE L!BaseAt(n) + l.addr
    BY <1>1, <1>2 DEF L!DataAt
  <1>4. L!Taken(file[n])' = L!Taken(l)
    BY <1>1 DEF L!Taken
  <1>5. L!DataLen(n)' = IF format = "srec"
                        THEN IF L!Taken(l) /\ l.type \in 1..3
                             THEN l.count - L!AddrLen(l.type) - 1 ELSE 0
                        ELSE IF L!Taken(l) /\ l.type = 0 THEN l.count ELSE 0
    <2>1. CASE format = "srec"
      BY <1>1, <1>4, <2>1 DEF L!DataLen
    <2>2. CASE format = "ihex"
      BY <1>1, <1>4, <2>2 DEF L!DataLen
    <2>3. QED
      BY <1>1, <2>1, <2>2
  <1>6. \A a, d : L!DataAt(n)' = a /\ L!DataLen(n)' = d => L!Covers(n)' = Places(a, d)
    BY DEF L!Covers, Places, Held, L!InMemory, Appends
  <1>7. QED
    BY <1>3, <1>5, <1>6

\* No data, no place.
LEMMA NoPlaces == \A a : Places(a, 0) = {}
  BY DEF Places, Held

\* The start records after one more line.
IsStart(l) ==
    /\ L!Taken(l)
    /\ IF format = "srec" THEN l.type \in 7..9 ELSE l.type \in {3, 5} /\ l.count = 4

\* A line adds itself to the start records, or nothing.
LEMMA StartsNext ==
    ASSUME NEW l \in L!LineSet, RecordFile, Appends(l), NEW n, n = position + 1,
           Done = 1..position, Done' = 1..n
    PROVE  /\ Starts' = IF IsStart(l) THEN Starts \cup {n} ELSE Starts
           /\ Starts \subseteq 1..position
  <1>1. n \in 1..n /\ n \notin 1..position /\ \A i \in 1..n : i = n \/ i \in 1..position
    BY AppendedFile
  <1>2. \A i \in 1..position : i \in 1..n /\ file'[i] = file[i]
    BY AppendedFile
  <1>3. file'[n] = l /\ format' = format
    BY AppendedFile DEF Appends
  <1>4. \A i \in 1..n : i \in Starts' <=> IF i = n THEN IsStart(l) ELSE IsStart(file[i])
    BY <1>1, <1>2, <1>3 DEF Starts, IsStart, L!Taken
  <1>5. \A i : i \in Starts <=> i \in 1..position /\ IsStart(file[i])
    BY DEF Starts, IsStart
  <1>6. Starts' \subseteq 1..n
    BY DEF Starts
  <1>7. QED
    BY <1>1, <1>2, <1>4, <1>5, <1>6

(***************************************************************************)
(* The record loaders keep the invariant.                                  *)
(***************************************************************************)
LEMMA RecordImage ==
    ASSUME LoadInv, NEW s \in Seq(L!LineSet), format \in {"srec", "ihex"}, L!Read(s), UNCHANGED L!bin,
           NEW l, l = (file \o s)[position + 1], NEW n, n = position + 1, NEW a \in Nat, NEW d \in Nat,
           \/ image' = image /\ L!Covers(n)' = {}
           \/ /\ image' = L!StoreRecord(image, a, d, n)
              /\ L!Covers(n)' = Places(a, d) /\ a = L!DataAt(n)'
    PROVE  ImageSays' /\ DOMAIN image' \subseteq 0 .. memory_size - 1 /\ Stamped'
  <1>1. /\ l \in L!LineSet /\ RecordFile /\ Appends(l) /\ ImageSays /\ loads > 0
        /\ Done = 1..position /\ Done' = 1..n
        /\ loads' = loads /\ oldImage' = oldImage
    BY RecordRead
  <1>2. /\ DOMAIN image \subseteq 0 .. memory_size - 1 /\ memory_size \in Nat /\ loads \in Nat
        /\ Stamped
    BY LoadTyped DEF LoadInv
  <1>3. CASE image' = image /\ L!Covers(n)' = {}
    <2>1. ImageSays'
      BY <1>1, <1>3, ImageKept
    <2>2. Stamped'
      BY <1>1, <1>2, <1>3 DEF Stamped
    <2>3. QED
      BY <1>2, <1>3, <2>1, <2>2
  <1>4. CASE /\ image' = L!StoreRecord(image, a, d, n)
             /\ L!Covers(n)' = Places(a, d) /\ a = L!DataAt(n)'
    <2>1. PICK W : W = Places(a, d)
      OBVIOUS
    <2>2. image' = [x \in DOMAIN image \cup W |->
                       IF x \in W THEN <<loads, n, (x - a) % LoaderBusMod>> ELSE image[x]]
      <3>1. L!StoreRecord(image, a, d, n) =
                [x \in DOMAIN image \cup Places(a, d) |->
                    IF x \in Places(a, d) THEN <<loads, n, (x - a) % LoaderBusMod>> ELSE image[x]]
        BY StoredIndexes DEF L!StoreRecord, L!Overlay, Places
      <3>2. QED
        BY <1>4, <2>1, <3>1
    <2>3. ImageSays'
      <3>1. W = L!Covers(n)' /\ a = L!DataAt(n)'
        BY <1>4, <2>1
      <3>2. StoresAt(W, a, n)
        BY <2>2 DEF StoresAt
      <3>3. QED
        BY <1>1, <3>1, <3>2, ImageAppended, Zenon
    <2>4. W \subseteq 0 .. memory_size - 1
      BY <1>2, <2>1, PlacesInMemory
    <2>5. DOMAIN image' \subseteq 0 .. memory_size - 1
      BY <1>2, <2>2, <2>4
    <2>6. \A x \in DOMAIN image' : image'[x][1] \in Nat /\ image'[x][1] <= loads
      <3>1. SUFFICES ASSUME NEW x \in DOMAIN image'
                     PROVE  image'[x][1] \in Nat /\ image'[x][1] <= loads
        OBVIOUS
      <3>2. CASE x \in W
        <4>1. image'[x] = <<loads, n, (x - a) % LoaderBusMod>>
          BY <2>2, <3>2
        <4>2. image'[x][1] = loads
          BY <4>1
        <4>3. QED
          BY <1>2, <4>2
      <3>3. CASE x \notin W
        <4>1. x \in DOMAIN image /\ image'[x] = image[x]
          BY <2>2, <3>3
        <4>2. QED
          BY <1>2, <4>1 DEF Stamped
      <3>4. QED
        BY <3>2, <3>3
    <2>7. Stamped'
      BY <1>1, <1>2, <2>6 DEF Stamped
    <2>8. QED
      BY <2>3, <2>5, <2>7
  <1>5. QED
    BY <1>3, <1>4

\* What a turn of either record loop must do to keep the invariant.
LEMMA RecordKeeps ==
    ASSUME LoadInv, NEW s \in Seq(L!LineSet), format \in {"srec", "ihex"}, L!Read(s), UNCHANGED L!bin,
           NEW l, l = (file \o s)[position + 1], NEW n, n = position + 1, NEW a \in Nat, NEW d \in Nat,
           \/ image' = image /\ L!Covers(n)' = {}
           \/ /\ image' = L!StoreRecord(image, a, d, n)
              /\ L!Covers(n)' = Places(a, d) /\ a = L!DataAt(n)',
           entry' \in 0 .. AddrMod - 1, base' \in 0 .. AddrMod - 1, open' \in BOOLEAN,
           L!Ends(l) <=> ~open', format = "ihex" => base' = L!BaseAt(n + 1)', EntrySays'
    PROVE  LoadInv'
  <1>1. /\ l \in L!LineSet /\ RecordFile /\ Appends(l) /\ loads > 0 /\ open
        /\ linesRead' \in 0..MaxLines
        /\ UNCHANGED <<memory_size, format, loads, oldImage, oldEntry, address, current_addr, size_out>>
        /\ \A j \in 1..position : ~L!Ends(file[j])
    BY RecordRead
  <1>2. ImageSays' /\ DOMAIN image' \subseteq 0 .. memory_size - 1 /\ Stamped'
    BY RecordImage
  <1>3. L!TypeOK'
    <2>1. /\ memory_size \in MemSizes /\ format \in {"none", "srec", "ihex", "bin"}
          /\ address \in 0 .. AddrMod - 1 /\ current_addr \in 0 .. AddrMod - 1
          /\ size_out \in 0 .. AddrMod - 1 /\ loads \in 0..MaxLoads
      BY LoadTyped
    <2>2. position' \in 0..Len(file')
      BY <1>1, AppendedFile
    <2>3. QED
      BY <1>1, <1>2, <2>1, <2>2, LoadTypes
  <1>4. FileInv'
    <2>1. format' = format /\ format # "none" /\ format # "bin" /\ loads' = loads
      BY <1>1
    <2>2. /\ file' \in Seq(L!LineSet) /\ position' = n /\ file'[n] = l /\ position \in Nat
          /\ \A i \in 1..position : file'[i] = file[i]
      BY <1>1, AppendedFile
    <2>3. \A j \in 1 .. position' - 1 : ~(L!Ends(file[j])')
      <3>1. SUFFICES ASSUME NEW j \in 1 .. position' - 1 PROVE ~(L!Ends(file[j])')
        OBVIOUS
      <3>2. j \in 1..position
        BY <2>2
      <3>3. L!Ends(file[j])' <=> L!Ends(file'[j])
        BY <2>1 DEF L!Ends, L!Taken
      <3>4. QED
        BY <1>1, <2>2, <3>2, <3>3
    <2>4. position' > 0 /\ (L!Ends(file[position])' <=> ~open')
      <3>1. L!Ends(file[position])' <=> L!Ends(file'[n])
        BY <2>1, <2>2 DEF L!Ends, L!Taken
      <3>2. n > 0
        BY <2>2
      <3>3. L!Ends(file'[n]) <=> ~open'
        BY <2>2, Zenon
      <3>4. QED
        BY <2>2, <3>1, <3>2, <3>3, Zenon
    <2>5. open' /\ format' = "ihex" => base' = L!BaseAt(position + 1)'
      <3>1. L!BaseAt(position + 1)' = L!BaseAt(n + 1)'
        BY <2>2 DEF L!BaseAt
      <3>2. QED
        BY <2>1, <3>1
    <2>6. QED
      BY <1>1, <2>1, <2>2, <2>3, <2>4, <2>5 DEF FileInv
  <1>5. L!SizeIsStored'
    BY <1>1 DEF L!SizeIsStored
  <1>6. format' # "bin" /\ loads' > 0
    BY <1>1
  <1>7. QED
    BY <1>2, <1>3, <1>4, <1>5, <1>6 DEF LoadInv

\* No line of an open S-record file has set the entry.
LEMMA NoStartYet ==
    ASSUME RecordFile, format = "srec", Done = 1..position,
           \A j \in 1..position : ~L!Ends(file[j])
    PROVE  Starts = {}
  BY DEF Starts, L!Ends

\* One turn of the loop of m68k_load_srec.
LEMMA SrecLineKeeps ==
    ASSUME LoadInv, NEW s \in SrecLines \cup {<<>>}, L!LoadSrecLine(s)
    PROVE  LoadInv'
  <1>1. PICK r : r = L!Fgets(s, L!SrecBuffer)
    OBVIOUS
  <1>2. PICK n : n = position + 1
    OBVIOUS
  <1>3. /\ format = "srec" /\ L!Read(s) /\ UNCHANGED L!bin /\ base' = base
        /\ \/ (~L!SrecTaken(r) \/ r.type = 0) /\ UNCHANGED <<image, entry, open>>
           \/ /\ L!SrecTaken(r) /\ r.type \in 1..3
              /\ image' = L!StoreRecord(image, r.addr, r.count - L!AddrLen(r.type) - 1, n)
              /\ UNCHANGED <<entry, open>>
           \/ /\ L!SrecTaken(r) /\ r.type \in 7..9
              /\ entry' = r.addr /\ open' = FALSE /\ image' = image
    BY <1>1, <1>2 DEF L!LoadSrecLine, L!Line
  <1>4. PICK l : l = (file \o s)[position + 1]
    OBVIOUS
  <1>5. /\ s \in Seq(L!LineSet) /\ l \in L!LineSet /\ RecordFile /\ Appends(l) /\ open /\ EntrySays
        /\ Done = 1..position /\ Done' = 1..n
        /\ format' = format /\ oldEntry' = oldEntry
        /\ \A j \in 1..position : ~L!Ends(file[j])
    BY <1>2, <1>3, <1>4, LoaderConstants, RecordRead
  <1>6. /\ r.type = l.type /\ r.count = l.count /\ r.addr = l.addr
        /\ L!SrecTaken(r) <=> L!Taken(l)
    <2>1. r = Cut(l, L!SrecBuffer)
      BY <1>1, <1>4, FgetsCuts
    <2>2. r.type = l.type /\ r.count = l.count /\ r.addr = l.addr
      BY <1>5, <2>1, CutFacts DEF L!SrecBuffer
    <2>3. L!SrecTaken(r) <=> L!SrecTaken(l) /\ l.count <= L!LongestSrec
      BY <1>5, <2>1, SrecSame
    <2>4. QED
      BY <1>3, <2>2, <2>3 DEF L!Taken
  <1>7. /\ l.type \in 0..255 /\ l.addr \in 0 .. AddrMod - 1
        /\ L!Taken(l) => l.count - L!AddrLen(l.type) - 1 \in Nat
    <2>1. L!Taken(l) => L!SrecTaken(l)
      BY <1>3 DEF L!Taken
    <2>2. L!SrecTaken(l) => l.count - L!AddrLen(l.type) - 1 \in 0..255
      BY <1>5, SrecLength, Zenon
    <2>3. \A x \in 0..255 : x \in Nat
      OBVIOUS
    <2>4. QED
      BY <1>5, <2>1, <2>2, <2>3, LineFacts, Zenon
  <1>8. /\ L!DataAt(n)' = l.addr
        /\ L!DataLen(n)' = IF L!Taken(l) /\ l.type \in 1..3
                           THEN l.count - L!AddrLen(l.type) - 1 ELSE 0
        /\ \A a, d : L!DataAt(n)' = a /\ L!DataLen(n)' = d => L!Covers(n)' = Places(a, d)
    BY <1>2, <1>3, <1>4, <1>5, NewCovers
  <1>9. Starts = {} /\ entry = oldEntry
    <2>1. Starts = {}
      BY <1>3, <1>5, NoStartYet
    <2>2. QED
      BY <1>5, <2>1 DEF EntrySays
  <1>10. Starts' = IF IsStart(l) THEN {n} ELSE {}
    <2>1. Starts' = IF IsStart(l) THEN Starts \cup {n} ELSE Starts
      BY <1>2, <1>4, <1>5, StartsNext
    <2>2. QED
      BY <1>9, <2>1
  <1>11. /\ IsStart(l) <=> L!Taken(l) /\ l.type \in 7..9
         /\ L!Ends(l) <=> L!Taken(l) /\ l.type \in 7..9
    BY <1>3 DEF IsStart, L!Ends, L!Taken
  <1>12. base \in 0 .. AddrMod - 1 /\ entry \in 0 .. AddrMod - 1 /\ open \in BOOLEAN
    BY LoadTyped
  <1>13. format # "ihex" /\ format \in {"srec", "ihex"}
    BY <1>3
  <1>14. CASE (~L!SrecTaken(r) \/ r.type = 0) /\ UNCHANGED <<image, entry, open>>
    <2>1. ~IsStart(l) /\ ~L!Ends(l) /\ L!DataLen(n)' = 0
      BY <1>6, <1>7, <1>8, <1>11, <1>14
    <2>2. L!Covers(n)' = {}
      BY <1>8, <2>1, NoPlaces
    <2>3. EntrySays'
      BY <1>5, <1>9, <1>10, <1>14, <2>1 DEF EntrySays
    <2>4. image' = image /\ 0 \in Nat /\ open'
      BY <1>5, <1>14
    <2>5. entry' \in 0 .. AddrMod - 1 /\ base' \in 0 .. AddrMod - 1 /\ open' \in BOOLEAN
      BY <1>3, <1>12, <1>14
    <2>6. QED
      BY <1>2, <1>3, <1>4, <1>5, <1>13, <2>1, <2>2, <2>3, <2>4, <2>5, RecordKeeps
  <1>15. CASE /\ L!SrecTaken(r) /\ r.type \in 1..3
              /\ image' = L!StoreRecord(image, r.addr, r.count - L!AddrLen(r.type) - 1, n)
              /\ UNCHANGED <<entry, open>>
    <2>1. PICK a : a = l.addr
      OBVIOUS
    <2>2. PICK d : d = l.count - L!AddrLen(l.type) - 1
      OBVIOUS
    <2>3. a \in Nat /\ d \in Nat
      BY <1>6, <1>7, <1>15, <2>1, <2>2
    <2>4. ~IsStart(l) /\ ~L!Ends(l) /\ L!DataLen(n)' = d /\ L!DataAt(n)' = a
      BY <1>6, <1>8, <1>11, <1>15, <2>1, <2>2
    <2>5. L!Covers(n)' = Places(a, d)
      BY <1>8, <2>4
    <2>6. EntrySays'
      BY <1>5, <1>9, <1>10, <1>15, <2>4 DEF EntrySays
    <2>7. image' = L!StoreRecord(image, a, d, n) /\ open'
      BY <1>5, <1>6, <1>15, <2>1, <2>2
    <2>8. entry' \in 0 .. AddrMod - 1 /\ base' \in 0 .. AddrMod - 1 /\ open' \in BOOLEAN
      BY <1>3, <1>12, <1>15
    <2>9. QED
      BY <1>2, <1>3, <1>4, <1>5, <1>13, <2>3, <2>4, <2>5, <2>6, <2>7, <2>8, RecordKeeps
  <1>16. CASE /\ L!SrecTaken(r) /\ r.type \in 7..9
              /\ entry' = r.addr /\ open' = FALSE /\ image' = image
    <2>1. IsStart(l) /\ L!Ends(l) /\ L!DataLen(n)' = 0
      BY <1>6, <1>8, <1>11, <1>16
    <2>2. L!Covers(n)' = {}
      BY <1>8, <2>1, NoPlaces
    <2>3. EntrySays'
      <3>1. Starts' = {n}
        BY <1>10, <2>1
      <3>2. n \in Nat /\ file'[n] = l
        BY <1>2, <1>5, AppendedFile
      <3>3. L!Min({n}) = n
        BY <3>2, MinIs
      <3>4. file'[L!Min(Starts')].addr = l.addr
        BY <3>1, <3>2, <3>3
      <3>5. QED
        BY <1>3, <1>6, <1>5, <1>16, <3>1, <3>4 DEF EntrySays
    <2>4. image' = image /\ 0 \in Nat /\ ~open'
      BY <1>16
    <2>5. entry' \in 0 .. AddrMod - 1 /\ base' \in 0 .. AddrMod - 1 /\ open' \in BOOLEAN
      BY <1>3, <1>6, <1>7, <1>12, <1>16
    <2>6. QED
      BY <1>2, <1>3, <1>4, <1>5, <1>13, <2>1, <2>2, <2>3, <2>4, <2>5, RecordKeeps
  <1>17. QED
    BY <1>3, <1>14, <1>15, <1>16

\* A line that is no start record leaves the entry point.
LEMMA EntryKept ==
    ASSUME NEW l \in L!LineSet, RecordFile, Appends(l), format = "ihex", EntrySays,
           Starts' = Starts, Starts \subseteq 1..position, entry' = entry
    PROVE  EntrySays'
  <1>1. position \in Nat /\ \A i \in 1..position : file'[i] = file[i]
    BY AppendedFile
  <1>2. format' = format /\ oldEntry' = oldEntry
    BY DEF Appends
  <1>3. CASE Starts = {}
    BY <1>2, <1>3 DEF EntrySays
  <1>4. CASE Starts # {}
    <2>1. L!Max(Starts) \in Starts
      <3>1. Starts \subseteq 0..position
        BY <1>1
      <3>2. QED
        BY <1>1, <1>4, <3>1, MaxIs
    <2>2. file'[L!Max(Starts)] = file[L!Max(Starts)]
      BY <1>1, <2>1
    <2>3. entry = L!Operand(file[L!Max(Starts)])
      BY <1>4 DEF EntrySays
    <2>4. QED
      BY <1>2, <1>4, <2>2, <2>3 DEF EntrySays
  <1>5. QED
    BY <1>3, <1>4

\* The last start record read is the entry point.
LEMMA EntrySet ==
    ASSUME NEW l \in L!LineSet, RecordFile, Appends(l), format = "ihex", NEW n, n = position + 1,
           Starts' = Starts \cup {n}, Starts \subseteq 1..position, entry' = L!Operand(l)
    PROVE  EntrySays'
  <1>1. position \in Nat /\ n \in Nat /\ file'[n] = l
    BY AppendedFile
  <1>2. format' = format
    BY DEF Appends
  <1>3. PICK T : T = Starts \cup {n}
    OBVIOUS
  <1>4. T \subseteq 0..n /\ n \in T /\ \A y \in T : n >= y
    <2>1. PICK m \in Nat : m = position
      BY <1>1
    <2>2. n = m + 1 /\ \A y \in T : y = n \/ y \in 1..m
      BY <1>3, <2>1
    <2>3. n \in T
      BY <1>3
    <2>4. QED
      BY <2>2, <2>3
  <1>5. L!Max(T) = n
    BY <1>1, <1>4, MaxEquals
  <1>6. file'[L!Max(Starts')] = l /\ Starts' # {}
    BY <1>1, <1>3, <1>4, <1>5
  <1>7. QED
    BY <1>2, <1>6 DEF EntrySays

\* One turn of the loop of m68k_load_ihex.
LEMMA IhexLineKeeps ==
    ASSUME LoadInv, NEW s \in IhexLines \cup {<<>>}, L!LoadIhexLine(s)
    PROVE  LoadInv'
  <1>1. PICK r : r = L!Fgets(s, L!IhexBuffer)
    OBVIOUS
  <1>2. PICK n : n = position + 1
    OBVIOUS
  <1>3. /\ format = "ihex" /\ L!Read(s) /\ UNCHANGED L!bin
        /\ \/ /\ \/ ~L!IhexTaken(r) \/ r.type \notin 0..5
                 \/ r.type \in {2, 4} /\ r.count # 2
                 \/ r.type \in {3, 5} /\ r.count # 4
              /\ UNCHANGED <<image, entry, open, base>>
           \/ /\ L!IhexTaken(r) /\ r.type = 0
              /\ image' = L!StoreRecord(image, base + r.addr, r.count, n)
              /\ UNCHANGED <<entry, open, base>>
           \/ /\ L!IhexTaken(r) /\ r.type = 1
              /\ open' = FALSE /\ UNCHANGED <<image, entry, base>>
           \/ /\ L!IhexTaken(r) /\ r.type \in {2, 4} /\ r.count = 2
              /\ base' = L!Operand(r) /\ UNCHANGED <<image, entry, open>>
           \/ /\ L!IhexTaken(r) /\ r.type \in {3, 5} /\ r.count = 4
              /\ entry' = L!Operand(r) /\ UNCHANGED <<image, open, base>>
    BY <1>1, <1>2 DEF L!LoadIhexLine, L!Line
  <1>4. PICK l : l = (file \o s)[position + 1]
    OBVIOUS
  <1>5. /\ s \in Seq(L!LineSet) /\ l \in L!LineSet /\ RecordFile /\ Appends(l) /\ open /\ EntrySays
        /\ Done = 1..position /\ Done' = 1..n
        /\ base = L!BaseAt(n)
    BY <1>2, <1>3, <1>4, LoaderConstants, RecordRead
  <1>6. /\ r.type = l.type /\ r.count = l.count /\ r.addr = l.addr
        /\ L!IhexTaken(r) <=> L!IhexTaken(l)
        /\ L!Operand(r) = L!Operand(l)
    <2>1. r = Cut(l, L!IhexBuffer)
      BY <1>1, <1>4, FgetsCuts
    <2>2. r.type = l.type /\ r.count = l.count /\ r.addr = l.addr
      BY <1>5, <2>1, CutFacts DEF L!IhexBuffer
    <2>3. (L!IhexTaken(r) <=> L!IhexTaken(l)) /\ L!Operand(r) = L!Operand(l)
      BY <1>5, <2>1, IhexSame
    <2>4. QED
      BY <2>2, <2>3
  <1>7. /\ l.type \in 0..255 /\ l.count \in 0..255 /\ l.addr \in 0 .. AddrMod - 1
        /\ L!Operand(l) \in 0 .. AddrMod - 1
    BY <1>5, LineFacts, OperandType
  <1>8. /\ L!DataAt(n)' = base + l.addr
        /\ L!DataLen(n)' = IF L!IhexTaken(l) /\ l.type = 0 THEN l.count ELSE 0
        /\ \A a, d : L!DataAt(n)' = a /\ L!DataLen(n)' = d => L!Covers(n)' = Places(a, d)
    BY <1>2, <1>3, <1>5, NewCovers DEF L!Taken
  <1>9. /\ Starts' = IF IsStart(l) THEN Starts \cup {n} ELSE Starts
        /\ Starts \subseteq 1..position
    BY <1>2, <1>4, <1>5, StartsNext
  <1>10. L!BaseAt(n + 1)' = IF L!SetsBase(l) THEN L!Operand(l) ELSE base
    BY <1>2, <1>4, <1>5, BaseNext
  <1>11. /\ IsStart(l) <=> L!IhexTaken(l) /\ l.type \in {3, 5} /\ l.count = 4
         /\ L!Ends(l) <=> L!IhexTaken(l) /\ l.type = 1
         /\ L!SetsBase(l) <=> L!IhexTaken(l) /\ l.type \in {2, 4} /\ l.count = 2
    BY <1>3 DEF IsStart, L!Ends, L!SetsBase, L!Taken
  <1>12. base \in 0 .. AddrMod - 1 /\ entry \in 0 .. AddrMod - 1 /\ open \in BOOLEAN
    BY LoadTyped
  <1>13. format \in {"srec", "ihex"}
    BY <1>3
  <1>14. ~IsStart(l) /\ entry' = entry => EntrySays'
    BY <1>3, <1>4, <1>5, <1>9, EntryKept
  <1>15. L!DataLen(n)' = 0 => L!Covers(n)' = {}
    BY <1>8, NoPlaces
  <1>16. CASE /\ \/ ~L!IhexTaken(r) \/ r.type \notin 0..5
                 \/ r.type \in {2, 4} /\ r.count # 2
                 \/ r.type \in {3, 5} /\ r.count # 4
              /\ UNCHANGED <<image, entry, open, base>>
    <2>1. ~IsStart(l) /\ ~L!Ends(l) /\ ~L!SetsBase(l) /\ L!DataLen(n)' = 0
      BY <1>6, <1>8, <1>11, <1>16
    <2>2. /\ L!Covers(n)' = {} /\ EntrySays' /\ image' = image /\ 0 \in Nat
          /\ base' = L!BaseAt(n + 1)'
      BY <1>10, <1>14, <1>15, <1>16, <2>1
    <2>3. /\ entry' \in 0 .. AddrMod - 1 /\ base' \in 0 .. AddrMod - 1
          /\ open' \in BOOLEAN /\ open'
      BY <1>5, <1>12, <1>16
    <2>4. QED
      BY <1>2, <1>3, <1>4, <1>5, <1>13, <2>1, <2>2, <2>3, RecordKeeps
  <1>17. CASE /\ L!IhexTaken(r) /\ r.type = 0
              /\ image' = L!StoreRecord(image, base + r.addr, r.count, n)
              /\ UNCHANGED <<entry, open, base>>
    <2>1. PICK a : a = base + l.addr
      OBVIOUS
    <2>2. PICK d : d = l.count
      OBVIOUS
    <2>3. a \in Nat /\ d \in Nat
      <3>1. AddrMod \in Nat
        BY LoaderConstants
      <3>2. (\A x \in 0 .. AddrMod - 1 : x \in Nat) /\ \A x \in 0..255 : x \in Nat
        BY <3>1
      <3>3. l.count \in Nat /\ l.addr \in Nat /\ base \in Nat
        BY <1>7, <1>12, <3>2, Zenon
      <3>4. QED
        BY <2>1, <2>2, <3>3
    <2>4. /\ ~IsStart(l) /\ ~L!Ends(l) /\ ~L!SetsBase(l)
          /\ L!DataLen(n)' = d /\ L!DataAt(n)' = a
      BY <1>6, <1>8, <1>11, <1>17, <2>1, <2>2
    <2>5. /\ L!Covers(n)' = Places(a, d) /\ EntrySays' /\ base' = L!BaseAt(n + 1)'
      BY <1>8, <1>10, <1>14, <1>17, <2>4
    <2>6. image' = L!StoreRecord(image, a, d, n)
      BY <1>6, <1>17, <2>1, <2>2
    <2>7. /\ entry' \in 0 .. AddrMod - 1 /\ base' \in 0 .. AddrMod - 1
          /\ open' \in BOOLEAN /\ open'
      BY <1>5, <1>12, <1>17
    <2>8. QED
      BY <1>2, <1>3, <1>4, <1>5, <1>13, <2>3, <2>4, <2>5, <2>6, <2>7, RecordKeeps
  <1>18. CASE /\ L!IhexTaken(r) /\ r.type = 1
              /\ open' = FALSE /\ UNCHANGED <<image, entry, base>>
    <2>1. ~IsStart(l) /\ L!Ends(l) /\ ~L!SetsBase(l) /\ L!DataLen(n)' = 0
      BY <1>6, <1>8, <1>11, <1>18
    <2>2. /\ L!Covers(n)' = {} /\ EntrySays' /\ image' = image /\ 0 \in Nat /\ ~open'
          /\ base' = L!BaseAt(n + 1)'
      BY <1>10, <1>14, <1>15, <1>18, <2>1
    <2>3. entry' \in 0 .. AddrMod - 1 /\ base' \in 0 .. AddrMod - 1 /\ open' \in BOOLEAN
      BY <1>12, <1>18
    <2>4. QED
      BY <1>2, <1>3, <1>4, <1>5, <1>13, <2>1, <2>2, <2>3, RecordKeeps
  <1>19. CASE /\ L!IhexTaken(r) /\ r.type \in {2, 4} /\ r.count = 2
              /\ base' = L!Operand(r) /\ UNCHANGED <<image, entry, open>>
    <2>1. ~IsStart(l) /\ ~L!Ends(l) /\ L!SetsBase(l) /\ L!DataLen(n)' = 0
      BY <1>6, <1>8, <1>11, <1>19
    <2>2. /\ L!Covers(n)' = {} /\ EntrySays' /\ image' = image /\ 0 \in Nat
          /\ base' = L!BaseAt(n + 1)'
      BY <1>6, <1>10, <1>14, <1>15, <1>19, <2>1
    <2>3. /\ entry' \in 0 .. AddrMod - 1 /\ base' \in 0 .. AddrMod - 1
          /\ open' \in BOOLEAN /\ open'
      BY <1>5, <1>6, <1>7, <1>12, <1>19
    <2>4. QED
      BY <1>2, <1>3, <1>4, <1>5, <1>13, <2>1, <2>2, <2>3, RecordKeeps
  <1>20. CASE /\ L!IhexTaken(r) /\ r.type \in {3, 5} /\ r.count = 4
              /\ entry' = L!Operand(r) /\ UNCHANGED <<image, open, base>>
    <2>1. IsStart(l) /\ ~L!Ends(l) /\ ~L!SetsBase(l) /\ L!DataLen(n)' = 0
      BY <1>6, <1>8, <1>11, <1>20
    <2>2. /\ L!Covers(n)' = {} /\ image' = image /\ 0 \in Nat
          /\ base' = L!BaseAt(n + 1)'
      BY <1>10, <1>15, <1>20, <2>1
    <2>3. EntrySays'
      BY <1>2, <1>3, <1>4, <1>6, <1>5, <1>9, <1>20, <2>1, EntrySet
    <2>4. /\ entry' \in 0 .. AddrMod - 1 /\ base' \in 0 .. AddrMod - 1
          /\ open' \in BOOLEAN /\ open'
      BY <1>5, <1>6, <1>7, <1>12, <1>20
    <2>5. QED
      BY <1>2, <1>3, <1>4, <1>5, <1>13, <2>1, <2>2, <2>3, <2>4, RecordKeeps
  <1>21. QED
    BY <1>3, <1>16, <1>17, <1>18, <1>19, <1>20

(***************************************************************************)
(* m68k_load_bin: its file is one record of the bytes read.                *)
(***************************************************************************)
BinImage(W) ==
    /\ \A a : a \in DOMAIN image <=> (a \in DOMAIN oldImage \/ a \in W)
    /\ \A a \in DOMAIN image : a \notin W => image[a] = oldImage[a]
    /\ \A a \in W : image[a] = <<loads, 1, (a - address) % LoaderBusMod>>

\* The image of a binary file: one record, at the load address.
LEMMA BinImageIs ==
    ASSUME format = "bin", NEW W, W = Places(address, Len(file))
    PROVE  ImageSays <=> BinImage(W)
  <1>1. Done = {1} /\ L!DataAt(1) = address /\ L!DataLen(1) = Len(file)
    BY DEF Done, L!DataAt, L!DataLen
  <1>2. L!Covers(1) = W
    BY <1>1, CoversIs
  <1>3. \A a : Covered(a) <=> a \in W
    BY <1>1, <1>2 DEF Covered
  <1>4. \A a, i : LastAt(a, i) <=> i = 1 /\ a \in W
    BY <1>1, <1>2 DEF LastAt
  <1>5. QED
    BY <1>1, <1>3, <1>4 DEF ImageSays, BinImage

\* The same in the next state.
LEMMA BinImageNext ==
    ASSUME format' = "bin", NEW W, W = Places(address, Len(file))'
    PROVE  ImageSays' <=> BinImage(W)'
  <1>1. Done' = {1} /\ L!DataAt(1)' = address' /\ L!DataLen(1)' = Len(file')
    BY DEF Done, L!DataAt, L!DataLen
  <1>2. L!Covers(1)' = W
    BY <1>1 DEF L!Covers, Places, Held
  <1>3. \A a : Covered(a)' <=> a \in W
    BY <1>1, <1>2 DEF Covered
  <1>4. \A a, i : LastAt(a, i)' <=> i = 1 /\ a \in W
    BY <1>1, <1>2 DEF LastAt
  <1>5. QED
    BY <1>1, <1>3, <1>4 DEF ImageSays, BinImage

\* The bytes of this load are the ones it has stored.
LEMMA FreshIs ==
    ASSUME NEW W, BinImage(W), Stamped, loads \in Nat, loads > 0
    PROVE  Fresh = W
  <1>1. \A a \in W : a \in DOMAIN image /\ image[a][1] = loads
    BY DEF BinImage
  <1>2. \A a \in DOMAIN image : a \notin W => image[a][1] # loads
    <2>1. \A a \in DOMAIN image : a \notin W => a \in DOMAIN oldImage /\ image[a] = oldImage[a]
      BY DEF BinImage
    <2>2. \A a \in DOMAIN oldImage : oldImage[a][1] # loads
      BY DEF Stamped
    <2>3. QED
      BY <2>1, <2>2
  <1>3. QED
    BY <1>1, <1>2 DEF Fresh

\* One more byte is stored when it is in memory.
LEMMA HeldNext ==
    ASSUME NEW a \in Nat, NEW m \in Nat, \A k \in 0 .. m - 1 : L!InMemory(a + k)
    PROVE  /\ Held(a, m) = 0 .. m - 1
           /\ Held(a, m + 1) = IF L!InMemory(a + m) THEN 0..m ELSE 0 .. m - 1
  <1>1. \A k \in 0 .. m - 1 : \A j \in 0..k : L!InMemory(a + j)
    <2>1. \A k \in 0 .. m - 1 : \A j \in 0..k : j \in 0 .. m - 1
      OBVIOUS
    <2>2. QED
      BY <2>1
  <1>2. Held(a, m) = 0 .. m - 1
    BY <1>1 DEF Held
  <1>3. Held(a, m + 1) = {k \in 0..m : \A j \in 0..k : L!InMemory(a + j)}
    BY DEF Held
  <1>4. \A k \in 0..m : k \in 0 .. m - 1 \/ k = m
    OBVIOUS
  <1>5. CASE L!InMemory(a + m)
    <2>1. \A k \in 0..m : L!InMemory(a + k)
      BY <1>4, <1>5
    <2>2. \A k \in 0..m : \A j \in 0..k : j \in 0..m
      OBVIOUS
    <2>3. QED
      BY <1>2, <1>3, <1>5, <2>1, <2>2
  <1>6. CASE ~L!InMemory(a + m)
    <2>1. \A k \in 0 .. m - 1 : k \in 0..m
      OBVIOUS
    <2>2. m \in 0..m
      OBVIOUS
    <2>3. \A k : k \in Held(a, m + 1) <=> k \in 0 .. m - 1
      BY <1>1, <1>3, <1>4, <1>6, <2>1, <2>2
    <2>4. QED
      BY <1>2, <1>6, <2>3
  <1>7. QED
    BY <1>5, <1>6

\* The place of the next byte, and that it is a new one.
LEMMA NextPlace ==
    ASSUME NEW a \in Nat, NEW m \in Nat, m < LoaderBusMod,
           \A k \in 0 .. m - 1 : L!InMemory(a + k), NEW x, x = (a + m) % LoaderBusMod
    PROVE  /\ Places(a, m + 1) = IF L!InMemory(a + m) THEN Places(a, m) \cup {x} ELSE Places(a, m)
           /\ x \notin Places(a, m)
           /\ (x - a) % LoaderBusMod = m
  <1>1. LoaderBusMod \in Nat \ {0} /\ a \in Int /\ m \in 0 .. LoaderBusMod - 1
    BY LoaderConstants
  <1>2. \A k \in 0..m : k \in 0 .. m - 1 \/ k = m
    OBVIOUS
  <1>3. \A k \in 0 .. m - 1 : k \in 0..m
    OBVIOUS
  <1>4. m \in 0..m /\ m \notin 0 .. m - 1
    OBVIOUS
  <1>5. Places(a, m + 1) = IF L!InMemory(a + m) THEN Places(a, m) \cup {x} ELSE Places(a, m)
    <2>1. /\ Held(a, m) = 0 .. m - 1
          /\ Held(a, m + 1) = IF L!InMemory(a + m) THEN 0..m ELSE 0 .. m - 1
      BY HeldNext
    <2>2. CASE L!InMemory(a + m)
      <3>1. Held(a, m) = 0 .. m - 1 /\ Held(a, m + 1) = 0..m
        BY <2>1, <2>2
      <3>2. \A y : y \in Places(a, m + 1) <=> y \in Places(a, m) \/ y = x
        <4>1. \A y : y \in Places(a, m + 1) <=> \E k \in 0..m : y = (a + k) % LoaderBusMod
          BY <3>1, Zenon DEF Places
        <4>2. \A y : y \in Places(a, m) <=> \E k \in 0 .. m - 1 : y = (a + k) % LoaderBusMod
          BY <3>1, Zenon DEF Places
        <4>3. QED
          BY <1>2, <1>3, <1>4, <4>1, <4>2, Zenon
      <3>3. QED
        BY <2>2, <3>2
    <2>3. CASE ~L!InMemory(a + m)
      <3>1. Held(a, m + 1) = Held(a, m)
        BY <2>1, <2>3
      <3>2. QED
        BY <2>3, <3>1 DEF Places
    <2>4. QED
      BY <2>2, <2>3
  <1>6. x \notin Places(a, m)
    <2>1. SUFFICES ASSUME NEW k \in 0 .. m - 1, x = (a + k) % LoaderBusMod PROVE FALSE
      <3>1. Held(a, m) = 0 .. m - 1
        BY HeldNext
      <3>2. \A y : y \in Places(a, m) <=> \E k \in 0 .. m - 1 : y = (a + k) % LoaderBusMod
        BY <3>1, Zenon DEF Places
      <3>3. x \in Places(a, m) => \E k \in 0 .. m - 1 : x = (a + k) % LoaderBusMod
        BY <3>2
      <3>4. QED
        BY <3>3
    <2>2. k \in 0 .. LoaderBusMod - 1
      BY <1>1
    <2>3. k = m
      BY <1>1, <2>1, <2>2, WrappedApart
    <2>4. QED
      BY <2>3
  <1>7. (x - a) % LoaderBusMod = m
    BY <1>1, WrappedOffset
  <1>8. QED
    BY <1>5, <1>6, <1>7

\* Counting modulo m, one step at a time.
LEMMA WrappedNext ==
    ASSUME NEW m \in Nat \ {0}, NEW x \in Int
    PROVE  ((x % m) + 1) % m = (x + 1) % m
  <1>1. PICK q \in Int : \E r \in 0 .. m - 1 : x = m * q + r /\ x % m = r
    BY Quotient
  <1>2. PICK r \in 0 .. m - 1 : x = m * q + r /\ x % m = r
    BY <1>1
  <1>3. r + 1 \in Int
    OBVIOUS
  <1>4. PICK s \in Int : \E t \in 0 .. m - 1 : r + 1 = m * s + t /\ (r + 1) % m = t
    BY <1>3, Quotient
  <1>5. PICK t \in 0 .. m - 1 : r + 1 = m * s + t /\ (r + 1) % m = t
    BY <1>4
  <1>6. x + 1 = m * (q + s) + t /\ q + s \in Int
    BY <1>2, <1>5
  <1>7. PICK u : u = q + s
    OBVIOUS
  <1>8. (x + 1) % m = t
    BY <1>6, <1>7, Residue, Zenon
  <1>9. QED
    BY <1>2, <1>5, <1>8

\* One more byte of a binary file.
LEMMA ByteRead ==
    ASSUME LoadInv, MaxLines <= LoaderBusMod, MaxLines < AddrMod, format = "bin", L!Read(<<"byte">>),
           address' = address, entry' = entry, base' = base
    PROVE  /\ file \in Seq({"byte"}) /\ file' \in Seq({"byte"}) /\ Len(file') = Len(file) + 1
           /\ Len(file) \in Nat /\ Len(file) < LoaderBusMod /\ Len(file) < AddrMod
           /\ linesRead' \in 0..MaxLines /\ Len(file') <= linesRead' /\ file' # <<>>
           /\ position' = Len(file') /\ open /\ loads \in Nat /\ loads > 0 /\ ImageSays /\ Stamped /\ BinSays
           /\ UNCHANGED <<memory_size, format, loads, oldImage, oldEntry>>
  <1>1. /\ open /\ file' = file \o <<"byte">> /\ position' = position + 1
        /\ ~(position < Len(file)) => linesRead < MaxLines /\ linesRead' = linesRead + 1
        /\ UNCHANGED <<memory_size, format, loads, oldImage, oldEntry>>
    BY DEF L!Read, L!Advance
  <1>2. /\ loads > 0 /\ file \in Seq({"byte"}) /\ Len(file) <= linesRead /\ position = Len(file)
        /\ linesRead < MaxLines /\ linesRead' = linesRead + 1
    <2>1. loads > 0 /\ file \in Seq({"byte"}) /\ Len(file) <= linesRead /\ position = Len(file)
      BY <1>1 DEF LoadInv, FileInv
    <2>2. ~(position < Len(file))
      BY <2>1
    <2>3. QED
      BY <1>1, <2>1, <2>2
  <1>3. ImageSays /\ Stamped /\ BinSays
    BY <1>1, <1>2 DEF LoadInv
  <1>4. file' \in Seq({"byte"}) /\ Len(file') = Len(file) + 1 /\ Len(file) \in Nat /\ file' # <<>>
    <2>1. <<"byte">> \in Seq({"byte"}) /\ Len(<<"byte">>) = 1
      OBVIOUS
    <2>2. QED
      BY <1>1, <1>2, <2>1
  <1>5. loads \in Nat /\ linesRead \in 0..MaxLines
    BY LoadTyped
  <1>6. PICK m \in Nat : m = Len(file)
    BY <1>4
  <1>7. m < LoaderBusMod /\ m < AddrMod /\ linesRead' \in 0..MaxLines /\ m + 1 <= linesRead'
    BY <1>1, <1>2, <1>5, <1>6, LoaderConstants
  <1>8. QED
    BY <1>1, <1>2, <1>3, <1>4, <1>5, <1>6, <1>7

\* A binary file is a sequence of bytes, none of which ends it.
LEMMA BinFile ==
    ASSUME format' = "bin", loads' > 0, file' \in Seq({"byte"}), Len(file') <= linesRead',
           position' = Len(file')
    PROVE  FileInv'
  BY DEF FileInv

\* One turn of the loop of m68k_load_bin, in a file no longer than the address space.
LEMMA BinByteKeeps ==
    ASSUME LoadInv, MaxLines <= LoaderBusMod, MaxLines < AddrMod, L!LoadBinByte
    PROVE  LoadInv'
  <1>1. /\ format = "bin" /\ L!Read(<<"byte">>) /\ entry' = entry /\ base' = base /\ address' = address
        /\ image' = L!loader_store(image, current_addr, <<loads, 1, Len(file)>>)
        /\ \/ /\ L!InMemory(current_addr)
              /\ current_addr' = (current_addr + 1) % AddrMod
              /\ UNCHANGED <<open, size_out>>
           \/ /\ ~L!InMemory(current_addr)
              /\ open' = FALSE /\ size_out' = (current_addr - address) % AddrMod
              /\ UNCHANGED current_addr
    BY DEF L!LoadBinByte
  <1>2. /\ file \in Seq({"byte"}) /\ file' \in Seq({"byte"}) /\ Len(file') = Len(file) + 1
        /\ Len(file) \in Nat /\ Len(file) < LoaderBusMod /\ Len(file) < AddrMod
        /\ linesRead' \in 0..MaxLines /\ Len(file') <= linesRead' /\ file' # <<>>
        /\ position' = Len(file') /\ position' \in 0..Len(file')
        /\ open /\ loads \in Nat /\ loads > 0 /\ ImageSays /\ Stamped /\ BinSays
        /\ UNCHANGED <<memory_size, format, loads, oldImage, oldEntry>>
    BY <1>1, ByteRead
  <1>3. /\ memory_size \in MemSizes /\ memory_size \in Nat /\ entry \in 0 .. AddrMod - 1
        /\ DOMAIN image \subseteq 0 .. memory_size - 1
        /\ base \in 0 .. AddrMod - 1 /\ format \in {"none", "srec", "ihex", "bin"}
        /\ address \in 0 .. AddrMod - 1 /\ size_out \in 0 .. AddrMod - 1 /\ loads \in 0..MaxLoads
        /\ current_addr \in 0 .. AddrMod - 1 /\ open \in BOOLEAN
    BY LoadTyped
  <1>4. PICK m : m = Len(file)
    OBVIOUS
  <1>5. PICK a : a = address
    OBVIOUS
  <1>6. /\ m \in Nat /\ m < LoaderBusMod /\ m < AddrMod /\ a \in Nat /\ a \in 0 .. AddrMod - 1
        /\ LoaderBusMod \in Nat \ {0} /\ AddrMod \in Nat \ {0} /\ AddrMod % LoaderBusMod = 0
    <2>1. a \in 0 .. AddrMod - 1 /\ AddrMod \in Nat
      BY <1>3, <1>5, LoaderConstants
    <2>2. QED
      BY <1>2, <1>4, <2>1, LoaderConstants
  <1>7. PICK x : x = (a + m) % LoaderBusMod
    OBVIOUS
  <1>8. /\ current_addr = (a + m) % AddrMod
        /\ \A k \in 0 .. m - 1 : L!InMemory(a + k)
        /\ IsFiniteSet(Fresh) /\ Cardinality(Fresh) = m
    BY <1>2, <1>4, <1>5 DEF BinSays
  <1>9. current_addr % LoaderBusMod = x
    <2>1. a + m \in Int
      BY <1>6
    <2>2. QED
      BY <1>6, <1>7, <1>8, <2>1, WrappedTwice
  <1>10. L!InMemory(current_addr) <=> L!InMemory(a + m)
    BY <1>7, <1>9 DEF L!InMemory
  <1>11. PICK W : W = Places(a, m)
    OBVIOUS
  <1>12. /\ Places(a, m + 1) = IF L!InMemory(a + m) THEN W \cup {x} ELSE W
         /\ x \notin W /\ (x - a) % LoaderBusMod = m
    BY <1>6, <1>7, <1>8, <1>11, NextPlace
  <1>13. BinImage(W) /\ Fresh = W
    <2>1. BinImage(W)
      BY <1>1, <1>2, <1>4, <1>5, <1>11, BinImageIs
    <2>2. QED
      BY <1>2, <2>1, FreshIs
  <1>14. Places(address, Len(file))' = Places(a, m + 1)
    BY <1>1, <1>2, <1>4, <1>5 DEF Places, Held, L!InMemory
  <1>15. format' = "bin" /\ loads' > 0 /\ FileInv'
    BY <1>1, <1>2, BinFile
  <1>16. CASE L!InMemory(current_addr) /\ current_addr' = (current_addr + 1) % AddrMod
              /\ UNCHANGED <<open, size_out>>
    <2>1. image' = [y \in DOMAIN image \cup {x} |-> IF y = x THEN <<loads, 1, m>> ELSE image[y]]
      BY <1>1, <1>4, <1>9, <1>16 DEF L!loader_store
    <2>2. PICK V : V = W \cup {x}
      OBVIOUS
    <2>3. BinImage(V)'
      <3>1. \A y : y \in DOMAIN image' <=> (y \in DOMAIN oldImage' \/ y \in V)
        BY <1>2, <1>13, <2>1, <2>2 DEF BinImage
      <3>2. \A y \in DOMAIN image' : y \notin V => image'[y] = oldImage'[y]
        BY <1>2, <1>13, <2>1, <2>2 DEF BinImage
      <3>3. \A y \in V : image'[y] = <<loads', 1, (y - address') % LoaderBusMod>>
        <4>1. SUFFICES ASSUME NEW y \in V
                       PROVE  image'[y] = <<loads, 1, (y - a) % LoaderBusMod>>
          BY <1>1, <1>2, <1>5
        <4>2. CASE y = x
          BY <1>12, <2>1, <4>2
        <4>3. CASE y # x
          <5>1. y \in W
            BY <2>2, <4>3
          <5>2. y \in DOMAIN image /\ image[y] = <<loads, 1, (y - a) % LoaderBusMod>>
            BY <1>5, <1>13, <5>1 DEF BinImage
          <5>3. QED
            BY <2>1, <4>3, <5>2
        <4>4. QED
          BY <4>2, <4>3
      <3>4. QED
        BY <3>1, <3>2, <3>3 DEF BinImage
    <2>4. ImageSays'
      <3>1. V = Places(address, Len(file))'
        BY <1>10, <1>12, <1>14, <1>16, <2>2
      <3>2. QED
        BY <1>15, <2>3, <3>1, BinImageNext
    <2>5. \A y \in DOMAIN image' : image'[y][1] = IF y = x THEN loads ELSE image[y][1]
      BY <2>1
    <2>6. Stamped'
      <3>1. \A y \in DOMAIN image' : y = x \/ y \in DOMAIN image
        BY <2>1
      <3>2. \A y \in DOMAIN image' : image'[y][1] \in Nat /\ image'[y][1] <= loads
        BY <1>2, <2>5, <3>1 DEF Stamped
      <3>3. QED
        BY <1>2, <3>2 DEF Stamped
    <2>7. Fresh' = Fresh \cup {x} /\ x \notin Fresh
      <3>1. \A y : y \in DOMAIN image' <=> y = x \/ y \in DOMAIN image
        BY <2>1
      <3>2. \A y : y \in Fresh' <=> y = x \/ y \in Fresh
        BY <1>2, <2>5, <3>1 DEF Fresh
      <3>3. QED
        BY <1>12, <1>13, <3>2
    <2>8. IsFiniteSet(Fresh') /\ Cardinality(Fresh') = m + 1
      BY <1>8, <2>7, FS_AddElement
    <2>9. x \in 0 .. memory_size - 1
      <3>1. x < memory_size
        BY <1>9, <1>16 DEF L!InMemory
      <3>2. a + m \in Nat
        BY <1>6
      <3>3. x \in Nat
        BY <1>6, <1>7, <3>2
      <3>4. QED
        BY <1>3, <3>1, <3>3
    <2>10. DOMAIN image' \subseteq 0 .. memory_size' - 1
      BY <1>2, <1>3, <2>1, <2>9
    <2>11. current_addr' = (a + (m + 1)) % AddrMod /\ current_addr' \in 0 .. AddrMod - 1
      <3>1. a + m \in Int /\ a + (m + 1) = (a + m) + 1 /\ a + (m + 1) \in Int
        BY <1>6
      <3>2. (((a + m) % AddrMod) + 1) % AddrMod = ((a + m) + 1) % AddrMod
        BY <1>6, <3>1, WrappedNext
      <3>3. current_addr' = (a + (m + 1)) % AddrMod
        BY <1>8, <1>16, <3>1, <3>2
      <3>4. \A y \in Int : y % AddrMod \in 0 .. AddrMod - 1
        BY <1>6
      <3>5. QED
        BY <3>1, <3>3, <3>4
    <2>12. BinSays'
      <3>1. current_addr' = (address' + Len(file')) % AddrMod
        BY <1>1, <1>2, <1>4, <1>5, <2>11
      <3>2. \A k \in 0 .. Len(file') - 1 : L!InMemory(address + k)'
        <4>1. \A k \in 0 .. Len(file') - 1 : k \in 0 .. m - 1 \/ k = m
          BY <1>2, <1>4, <1>6
        <4>2. \A k \in 0 .. Len(file') - 1 : L!InMemory(a + k)
          BY <1>8, <1>10, <1>16, <4>1
        <4>3. QED
          BY <1>1, <1>2, <1>5, <4>2 DEF L!InMemory
      <3>3. QED
        BY <1>2, <1>4, <2>8, <3>1, <3>2 DEF BinSays
    <2>13. L!TypeOK'
      <3>1. open' \in BOOLEAN /\ size_out' \in 0 .. AddrMod - 1
        BY <1>3, <1>16
      <3>2. QED
        BY <1>1, <1>2, <1>3, <2>10, <2>11, <3>1, LoadTypes
    <2>14. L!SizeIsStored'
      BY <1>2, <1>16 DEF L!SizeIsStored
    <2>15. QED
      BY <1>15, <2>4, <2>6, <2>12, <2>13, <2>14 DEF LoadInv
  <1>17. CASE /\ ~L!InMemory(current_addr)
              /\ open' = FALSE /\ size_out' = (current_addr - address) % AddrMod
              /\ UNCHANGED current_addr
    <2>1. image' = image
      BY <1>1, <1>17 DEF L!loader_store
    <2>2. BinImage(W)'
      BY <1>1, <1>2, <1>13, <2>1 DEF BinImage
    <2>3. ImageSays'
      <3>1. W = Places(address, Len(file))'
        BY <1>10, <1>12, <1>14, <1>17
      <3>2. QED
        BY <1>15, <2>2, <3>1, BinImageNext
    <2>4. Stamped'
      BY <1>2, <2>1 DEF Stamped
    <2>5. size_out' = m
      <3>1. m \in 0 .. AddrMod - 1 /\ a \in Int
        BY <1>6
      <3>2. (((a + m) % AddrMod) - a) % AddrMod = m
        BY <1>6, <3>1, WrappedOffset
      <3>3. QED
        BY <1>5, <1>8, <1>17, <3>2
    <2>6. L!TypeOK'
      <3>1. size_out' \in 0 .. AddrMod - 1
        BY <1>6, <2>5
      <3>2. open' \in BOOLEAN
        BY <1>17
      <3>3. QED
        BY <1>1, <1>2, <1>3, <1>17, <2>1, <3>1, <3>2, LoadTypes
    <2>7. L!SizeIsStored'
      <3>1. L!Cardinality({y \in DOMAIN image : image[y][1] = loads}) = m
        BY <1>8, SameCardinality DEF Fresh
      <3>2. ~(L!InMemory(address + Len(file) - 1)')
        <4>1. address' + Len(file') - 1 = a + m
          BY <1>1, <1>2, <1>4, <1>5, <1>6
        <4>2. QED
          BY <1>2, <1>10, <1>17, <4>1 DEF L!InMemory
      <3>3. size_out' < Len(file')
        BY <1>2, <1>4, <1>6, <2>5
      <3>4. QED
        BY <1>2, <2>1, <2>5, <3>1, <3>2, <3>3 DEF L!SizeIsStored
    <2>8. QED
      BY <1>15, <1>17, <2>3, <2>4, <2>6, <2>7 DEF LoadInv
  <1>18. QED
    BY <1>1, <1>16, <1>17

(***************************************************************************)
(* Opening a file, and its end.                                            *)
(***************************************************************************)
LEMMA OpenKeeps ==
    ASSUME LoadInv, NEW f \in {"srec", "ihex", "bin"}, NEW at \in 0 .. AddrMod - 1, L!Open(f, at)
    PROVE  LoadInv'
  <1>1. /\ ~open /\ loads < MaxLoads /\ loads' = loads + 1
        /\ format' = f /\ open' = TRUE /\ base' = 0
        /\ size_out' = 0 /\ address' = at /\ current_addr' = at
        /\ position' = 0 /\ file' = <<>> /\ oldImage' = image /\ oldEntry' = entry
        /\ UNCHANGED <<memory_size, image, entry, linesRead>>
    BY DEF L!Open
  <1>2. /\ memory_size \in MemSizes /\ DOMAIN image \subseteq 0 .. memory_size - 1
        /\ entry \in 0 .. AddrMod - 1 /\ loads \in Nat /\ linesRead \in 0..MaxLines
        /\ AddrMod \in Nat \ {0} /\ MaxLoads \in Nat /\ Stamped
    BY LoadTyped, LoaderConstants DEF LoadInv
  <1>3. L!TypeOK'
    <2>1. loads' \in 0..MaxLoads /\ 0 \in 0 .. AddrMod - 1
      BY <1>1, <1>2
    <2>2. open' \in BOOLEAN
      BY <1>1
    <2>3. format' \in {"none", "srec", "ihex", "bin"}
      BY <1>1
    <2>4. position' \in 0..Len(file')
      BY <1>1
    <2>5. QED
      BY <1>1, <1>2, <2>1, <2>2, <2>3, <2>4, LoadTypes
  <1>4. Len(file') = 0 /\ file' \in Seq(L!LineSet) /\ file' \in Seq({"byte"}) /\ position' = 0
    BY <1>1
  <1>5. L!BaseAt(position + 1)' = 0
    <2>1. 1 .. (position' + 1) - 1 = {}
      BY <1>4
    <2>2. QED
      BY <2>1 DEF L!BaseAt
  <1>6. FileInv'
    <2>1. loads' > 0 /\ 0 <= linesRead'
      BY <1>1, <1>2
    <2>2. (\A j \in 1 .. position' - 1 : FALSE) /\ ~(position' > 0)
      BY <1>4
    <2>3. format' # "none" /\ base' = 0 /\ open'
      BY <1>1
    <2>4. QED
      BY <1>4, <1>5, <2>1, <2>2, <2>3 DEF FileInv
  <1>7. \A a \in DOMAIN image : image[a][1] \in Nat /\ image[a][1] < loads'
    BY <1>1, <1>2 DEF Stamped
  <1>8. Stamped'
    <2>1. \A a \in DOMAIN image' : image'[a][1] \in Nat /\ image'[a][1] <= loads'
      BY <1>1, <1>2, <1>7
    <2>2. QED
      BY <1>1, <1>7, <2>1 DEF Stamped
  <1>9. \A a : ~(Covered(a)')
    <2>1. CASE f = "bin"
      <3>1. \A i : L!DataAt(i)' = at /\ L!DataLen(i)' = 0
        BY <1>1, <1>4, <2>1 DEF L!DataAt, L!DataLen
      <3>2. \A i : L!Covers(i)' = {}
        BY <3>1 DEF L!Covers
      <3>3. QED
        BY <3>2 DEF Covered
    <2>2. CASE f # "bin"
      <3>1. Done' = {}
        BY <1>1, <1>4, <2>2 DEF Done
      <3>2. QED
        BY <3>1 DEF Covered
    <2>3. QED
      BY <2>1, <2>2
  <1>10. ImageSays'
    <2>1. \A a, i : ~(LastAt(a, i)')
      BY <1>9 DEF LastAt, Covered
    <2>2. QED
      BY <1>1, <1>9, <2>1 DEF ImageSays
  <1>11. format' \in {"srec", "ihex"} => EntrySays'
    <2>1. format' \in {"srec", "ihex"} => Starts' = {}
      BY <1>4 DEF Starts, Done
    <2>2. QED
      BY <1>1, <2>1 DEF EntrySays
  <1>12. format' = "bin" => BinSays'
    <2>1. (at + 0) % AddrMod = at
      BY <1>2
    <2>2. Fresh' = {}
      BY <1>1, <1>2, <1>7 DEF Fresh
    <2>3. IsFiniteSet(Fresh') /\ Cardinality(Fresh') = 0
      BY <2>2, FS_EmptySet
    <2>4. \A k \in 0 .. Len(file') - 1 : FALSE
      BY <1>4
    <2>5. QED
      BY <1>1, <1>4, <2>1, <2>3, <2>4 DEF BinSays
  <1>13. L!SizeIsStored'
    BY <1>1 DEF L!SizeIsStored
  <1>14. QED
    BY <1>3, <1>6, <1>8, <1>10, <1>11, <1>12, <1>13 DEF LoadInv

\* A step that reads and stores nothing leaves what the file says as it is.
LEMMA FileKept ==
    ASSUME UNCHANGED <<memory_size, image, entry, format, base, address, current_addr, loads,
                       linesRead, position, file, oldImage, oldEntry>>
    PROVE  /\ ImageSays => ImageSays'
           /\ EntrySays => EntrySays'
           /\ Stamped => Stamped'
           /\ BinSays => BinSays'
           /\ Fresh' = Fresh
           /\ (open' <=> open) \/ (~open' /\ position = Len(file)) => (FileInv => FileInv')
  <1>1. Done' = Done
    BY DEF Done
  <1>2. \A i : L!BaseAt(i)' = L!BaseAt(i)
    <2>1. \A j : L!SetsBase(file[j])' = L!SetsBase(file[j])
      BY DEF L!SetsBase, L!Taken
    <2>2. QED
      BY <2>1 DEF L!BaseAt
  <1>3. \A i : L!DataAt(i)' = L!DataAt(i) /\ L!DataLen(i)' = L!DataLen(i)
    <2>1. \A i : L!DataAt(i)' = L!DataAt(i)
      BY <1>2 DEF L!DataAt
    <2>2. \A i : L!DataLen(i)' = L!DataLen(i)
      BY DEF L!DataLen, L!Taken
    <2>3. QED
      BY <2>1, <2>2
  <1>4. \A i : L!Covers(i)' = L!Covers(i)
    BY <1>3 DEF L!Covers, L!InMemory
  <1>5. \A a : Covered(a)' = Covered(a)
    BY <1>1, <1>4 DEF Covered
  <1>6. \A a, i : LastAt(a, i)' = LastAt(a, i)
    BY <1>1, <1>4 DEF LastAt
  <1>7. ImageSays => ImageSays'
    BY <1>3, <1>5, <1>6 DEF ImageSays
  <1>8. Starts' = Starts
    BY <1>1 DEF Starts, L!Taken
  <1>9. EntrySays => EntrySays'
    BY <1>8 DEF EntrySays
  <1>10. Stamped => Stamped'
    BY DEF Stamped
  <1>11. Fresh' = Fresh
    BY DEF Fresh
  <1>12. BinSays => BinSays'
    BY <1>11 DEF BinSays, L!InMemory
  <1>13. (open' <=> open) \/ (~open' /\ position = Len(file)) => (FileInv => FileInv')
    <2>1. \A j : L!Ends(file[j])' = L!Ends(file[j])
      BY DEF L!Ends, L!Taken
    <2>2. L!BaseAt(position + 1)' = L!BaseAt(position + 1)
      BY <1>2
    <2>3. QED
      BY <2>1, <2>2 DEF FileInv
  <1>14. QED
    BY <1>7, <1>9, <1>10, <1>11, <1>12, <1>13

\* The end of the file ends every loop and reports the size.
LEMMA EndOfFileKeeps ==
    ASSUME LoadInv, MaxLines < AddrMod, L!EndOfFile
    PROVE  LoadInv'
  <1>1. /\ open /\ position = Len(file) /\ open' = FALSE
        /\ size_out' = IF format = "bin" THEN (current_addr - address) % AddrMod ELSE size_out
        /\ UNCHANGED <<memory_size, image, entry, format, base, address, current_addr, loads,
                       linesRead, position, file, oldImage, oldEntry>>
    BY DEF L!EndOfFile
  <1>2. /\ memory_size \in MemSizes /\ DOMAIN image \subseteq 0 .. memory_size - 1
        /\ entry \in 0 .. AddrMod - 1 /\ base \in 0 .. AddrMod - 1
        /\ format \in {"none", "srec", "ihex", "bin"}
        /\ address \in 0 .. AddrMod - 1 /\ current_addr \in 0 .. AddrMod - 1
        /\ size_out \in 0 .. AddrMod - 1 /\ loads \in 0..MaxLoads /\ linesRead \in 0..MaxLines
        /\ position \in 0..Len(file)
    BY LoadTyped
  <1>3. /\ (loads > 0 => ImageSays') /\ Stamped' /\ Fresh' = Fresh /\ FileInv'
        /\ (format \in {"srec", "ihex"} => EntrySays')
    <2>1. ~open' /\ position = Len(file)
      BY <1>1
    <2>2. /\ loads > 0 => ImageSays
          /\ Stamped /\ FileInv
          /\ format \in {"srec", "ihex"} => EntrySays
      BY DEF LoadInv
    <2>3. QED
      BY <1>1, <2>1, <2>2, FileKept
  <1>4. format = "bin" =>
           /\ size_out' = Len(file) /\ size_out' \in 0 .. AddrMod - 1
           /\ Cardinality(Fresh) = Len(file) /\ Len(file) \in Nat
           /\ file # <<>> => L!InMemory(address + Len(file) - 1)
    <2>1. SUFFICES ASSUME format = "bin"
                   PROVE  /\ size_out' = Len(file) /\ size_out' \in 0 .. AddrMod - 1
                          /\ Cardinality(Fresh) = Len(file) /\ Len(file) \in Nat
                          /\ file # <<>> => L!InMemory(address + Len(file) - 1)
      OBVIOUS
    <2>2. BinSays /\ file \in Seq({"byte"}) /\ Len(file) <= linesRead
      BY <1>1, <2>1 DEF LoadInv, FileInv
    <2>3. PICK m \in Nat : m = Len(file) /\ (file # <<>> => m > 0)
      BY <2>2
    <2>4. m \in 0 .. AddrMod - 1 /\ address \in Int /\ AddrMod \in Nat \ {0}
      BY <1>2, <2>2, <2>3, LoaderConstants
    <2>5. current_addr = (address + m) % AddrMod
      BY <2>2, <2>3 DEF BinSays
    <2>6. (((address + m) % AddrMod) - address) % AddrMod = m
      <3>1. PICK a \in Int : a = address
        BY <2>4
      <3>2. (((a + m) % AddrMod) - a) % AddrMod = m
        BY <2>4, WrappedOffset
      <3>3. QED
        BY <3>1, <3>2
    <2>7. size_out' = m
      BY <1>1, <2>1, <2>5, <2>6
    <2>8. file # <<>> => L!InMemory(address + m - 1)
      <3>1. SUFFICES ASSUME file # <<>> PROVE L!InMemory(address + m - 1)
        OBVIOUS
      <3>2. m - 1 \in 0 .. m - 1 /\ address + (m - 1) = address + m - 1
        BY <2>3, <2>4, <3>1
      <3>3. L!InMemory(address + (m - 1))
        BY <2>2, <2>3, <3>2 DEF BinSays
      <3>4. QED
        BY <3>2, <3>3
    <2>9. Cardinality(Fresh) = m
      BY <2>2, <2>3 DEF BinSays
    <2>10. QED
      BY <2>3, <2>4, <2>7, <2>8, <2>9
  <1>5. L!TypeOK'
    <2>1. size_out' \in 0 .. AddrMod - 1
      BY <1>1, <1>2, <1>4
    <2>2. open' \in BOOLEAN /\ position' \in 0..Len(file')
      BY <1>1, <1>2
    <2>3. QED
      BY <1>1, <1>2, <2>1, <2>2, LoadTypes
  <1>6. L!SizeIsStored'
    <2>1. SUFFICES ASSUME format = "bin" PROVE L!SizeIsStored'
      BY <1>1 DEF L!SizeIsStored
    <2>2. L!Cardinality({a \in DOMAIN image : image[a][1] = loads}) = Len(file)
      BY <1>4, <2>1, SameCardinality DEF Fresh
    <2>3. /\ size_out' = Len(file') /\ ~(size_out' < Len(file'))
          /\ file' # <<>> => L!InMemory(address + Len(file) - 1)'
      BY <1>1, <1>4, <2>1 DEF L!InMemory
    <2>4. QED
      BY <1>1, <2>2, <2>3 DEF L!SizeIsStored
  <1>7. QED
    BY <1>1, <1>3, <1>5, <1>6 DEF LoadInv

\* The invariant is about the loader's variables alone.
LEMMA LoadStutters ==
    ASSUME LoadInv, UNCHANGED loaderVars
    PROVE  LoadInv'
  <1>1. /\ UNCHANGED <<memory_size, image, entry, format, base, address, current_addr, loads,
                       linesRead, position, file, oldImage, oldEntry>>
        /\ UNCHANGED <<open, size_out>>
    BY DEF loaderVars
  <1>2. /\ loads > 0 => ImageSays
        /\ L!TypeOK /\ Stamped /\ FileInv
        /\ format \in {"srec", "ihex"} => EntrySays
        /\ open /\ format = "bin" => BinSays
        /\ L!SizeIsStored
    BY DEF LoadInv
  <1>3. /\ loads' > 0 => ImageSays'
        /\ Stamped' /\ FileInv'
        /\ format' \in {"srec", "ihex"} => EntrySays'
        /\ open' /\ format' = "bin" => BinSays'
    BY <1>1, <1>2, FileKept
  <1>4. L!TypeOK'
    BY <1>1, <1>2 DEF L!TypeOK
  <1>5. L!SizeIsStored'
    BY <1>1, <1>2 DEF L!SizeIsStored, L!InMemory
  <1>6. QED
    BY <1>3, <1>4, <1>5 DEF LoadInv

\* Before the first load.
LEMMA LoadStarts ==
    ASSUME L!Init
    PROVE  LoadInv
  <1>1. /\ memory_size \in MemSizes /\ image = <<>> /\ entry = 0
        /\ format = "none" /\ open = FALSE /\ base = 0
        /\ address = 0 /\ current_addr = 0 /\ size_out = 0 /\ loads = 0 /\ linesRead = 0
        /\ position = 0 /\ file = <<>>
    BY DEF L!Init
  <1>2. 0 \in 0 .. AddrMod - 1 /\ 0 \in 0..MaxLoads /\ 0 \in 0..MaxLines /\ ~(loads > 0)
        /\ position \in 0..Len(file)
    BY <1>1, LoaderConstants
  <1>3. DOMAIN image = {}
    BY <1>1
  <1>4. L!TypeOK
    BY <1>1, <1>2, <1>3 DEF L!TypeOK
  <1>5. FileInv
    BY <1>1, <1>2 DEF FileInv
  <1>6. Stamped
    BY <1>2, <1>3 DEF Stamped
  <1>7. L!SizeIsStored
    BY <1>1 DEF L!SizeIsStored
  <1>8. QED
    BY <1>1, <1>2, <1>4, <1>5, <1>6, <1>7 DEF LoadInv

\* Every step of a loading session keeps the invariant.
LEMMA LoadNext ==
    ASSUME MaxLines <= LoaderBusMod, MaxLines < AddrMod, LoadInv, L!Next
    PROVE  LoadInv'
  <1>1. CASE L!Open("srec", 0) \/ L!Open("ihex", 0)
    <2>1. 0 \in 0 .. AddrMod - 1
      BY LoaderConstants
    <2>2. QED
      BY <1>1, <2>1, OpenKeeps
  <1>2. CASE \E a \in Start : L!Open("bin", a)
    BY <1>2, LoaderConstants, OpenKeeps
  <1>3. CASE \E s \in SrecLines \cup {<<>>} : L!LoadSrecLine(s)
    BY <1>3, SrecLineKeeps
  <1>4. CASE \E s \in IhexLines \cup {<<>>} : L!LoadIhexLine(s)
    BY <1>4, IhexLineKeeps
  <1>5. CASE L!LoadBinByte
    BY <1>5, BinByteKeeps
  <1>6. CASE L!EndOfFile
    BY <1>6, EndOfFileKeeps
  <1>7. QED
    BY <1>1, <1>2, <1>3, <1>4, <1>5, <1>6 DEF L!Next

\* Of the steps of a host, those of its loading session change what is loaded.
LEMMA HostLoads ==
    ASSUME [HostNext]_hostVars
    PROVE  L!Next \/ UNCHANGED loaderVars
  BY DEF HostNext, LoadSession, SaveSession, RunSession, hostVars

\* When a file is closed, the parts that count are the ones that were read: the
\* loop stops at the end of the file or at the first record that ends it.
LEMMA EffectiveDone ==
    ASSUME LoadInv, loads > 0, ~open
    PROVE  L!Effective = Done /\ \E N \in Nat : Done \subseteq 0..N
  <1>1. format \in {"srec", "ihex", "bin"}
    BY LoadTyped DEF LoadInv, FileInv
  <1>2. CASE format = "bin"
    BY <1>2 DEF L!Effective, Done
  <1>3. CASE format # "bin"
    <2>1. /\ file \in Seq(L!LineSet) /\ position \in 0..Len(file)
          /\ \A j \in 1 .. position - 1 : ~L!Ends(file[j])
          /\ position = Len(file) \/ (position > 0 /\ L!Ends(file[position]))
      BY <1>1, <1>3, LoadTyped DEF LoadInv, FileInv
    <2>2. Len(file) \in Nat /\ position \in Nat /\ position <= Len(file) /\ DOMAIN file = 1..Len(file)
      BY <2>1
    <2>3. ASSUME NEW i \in 1..position
          PROVE  i \in DOMAIN file /\ ~\E j \in 1 .. i - 1 : L!Ends(file[j])
      <3>1. i \in 1..Len(file) /\ \A j \in 1 .. i - 1 : j \in 1 .. position - 1
        BY <2>2
      <3>2. QED
        BY <2>1, <2>2, <3>1, Zenon
    <2>4. ASSUME NEW i \in DOMAIN file, ~\E j \in 1 .. i - 1 : L!Ends(file[j])
          PROVE  i \in 1..position
      <3>1. SUFFICES ASSUME i > position PROVE FALSE
        BY <2>2
      <3>2. position # Len(file) /\ (position > 0 => position \in 1 .. i - 1)
        <4>1. i \in Nat /\ i <= Len(file)
          BY <2>2, <2>4
        <4>2. position \in Nat /\ Len(file) \in Nat
          BY <2>2
        <4>3. position # Len(file)
          BY <3>1, <4>1, <4>2
        <4>4. position > 0 => position \in 1 .. i - 1
          BY <3>1, <4>1, <4>2
        <4>5. QED
          BY <4>3, <4>4
      <3>3. QED
        BY <2>1, <2>4, <3>2
    <2>5. \A i : i \in L!Effective <=> i \in 1..position
      BY <1>3, <2>3, <2>4 DEF L!Effective
    <2>6. L!Effective = Done
      BY <1>3, <2>5 DEF Done
    <2>7. Done \subseteq 0..position
      BY <1>3, <2>2 DEF Done
    <2>8. QED
      BY <2>2, <2>6, <2>7
  <1>4. QED
    BY <1>2, <1>3

\* The invariant says what the property says, in the property's own terms.
LEMMA LoadedSaid ==
    ASSUME LoadInv
    PROVE  LoadedIsFile
  <1>1. L!ImageIsFile
    <2>1. CASE loads > 0 /\ ~open
      <3>1. PICK N \in Nat : L!Effective = Done /\ Done \subseteq 0..N
        BY <2>1, EffectiveDone
      <3>2. ImageSays
        BY <2>1 DEF LoadInv
      <3>3. QED
        BY <3>1, <3>2, ImageSaid
    <2>2. CASE ~(loads > 0 /\ ~open)
      BY <2>2 DEF L!ImageIsFile
    <2>3. QED
      BY <2>1, <2>2
  <1>2. L!EntryPoint
    <2>1. SUFFICES ASSUME ~open, format \in {"srec", "ihex"} PROVE L!EntryPoint
      BY DEF L!EntryPoint
    <2>2. loads > 0 /\ EntrySays
      BY <2>1 DEF LoadInv, FileInv
    <2>3. L!Effective = Done
      BY <2>1, <2>2, EffectiveDone
    <2>4. QED
      BY <2>2, <2>3 DEF EntrySays, Starts, L!EntryPoint
  <1>3. L!SizeIsStored
    BY DEF LoadInv
  <1>4. QED
    BY <1>1, <1>2, <1>3 DEF LoadedIsFile

\* LoadInv holds for every set of lines, broken or longer than the buffers of the
\* loaders, and for binary files that fit the address space.
THEOREM LoadInductive ==
    ASSUME MaxLines <= LoaderBusMod, MaxLines < AddrMod
    PROVE  HostSpec => []LoadInv
  <1>1. HostInit => LoadInv
    BY LoadStarts DEF HostInit
  <1>2. LoadInv /\ [HostNext]_hostVars => LoadInv'
    BY LoadNext, LoadStutters, HostLoads
  <1>3. QED
    BY <1>1, <1>2, PTL DEF HostSpec

\* The loaders leave in memory what the file says, and nothing else: LoadedIsFile
\* for every file of lines, whatever the rests of those longer than the buffer say,
\* and every size of memory.
THEOREM LoadsAreFaithful ==
    ASSUME MaxLines <= LoaderBusMod, MaxLines < AddrMod
    PROVE  HostSpec => []LoadedIsFile
  <1>1. LoadInv => LoadedIsFile
    BY LoadedSaid
  <1>2. QED
    BY <1>1, LoadInductive, PTL

(***************************************************************************)
(* Types of the loaders, whatever the lines and the length of the files.   *)
(***************************************************************************)
FileTyped ==
    /\ file \in Seq(L!LineSet \cup {"byte"})
    /\ format \in {"srec", "ihex"} => file \in Seq(L!LineSet)
LoadTypesAre ==
    /\ memory_size \in MemSizes /\ memory_size \in Nat /\ DOMAIN image \subseteq 0 .. memory_size - 1
    /\ entry \in 0 .. AddrMod - 1 /\ base \in 0 .. AddrMod - 1
    /\ format \in {"none", "srec", "ihex", "bin"} /\ open \in BOOLEAN
    /\ address \in 0 .. AddrMod - 1 /\ current_addr \in 0 .. AddrMod - 1
    /\ size_out \in 0 .. AddrMod - 1
    /\ loads \in 0..MaxLoads /\ linesRead \in 0..MaxLines
    /\ FileTyped /\ position \in 0..Len(file)

\* TypeOK of the loaders, spelled out.
LEMMA LoadTypesSame == L!TypeOK /\ FileTyped <=> LoadTypesAre
  BY LoaderConstants DEF L!TypeOK, LoadTypesAre

\* A record is stored inside memory only.
LEMMA StoredInMemory ==
    ASSUME LoadTypesAre, NEW a \in Nat, NEW n \in Nat, NEW line,
           image' = L!StoreRecord(image, a, n, line)
    PROVE  DOMAIN image' \subseteq 0 .. memory_size - 1
  <1>1. L!StoreRecord(image, a, n, line) =
            [x \in DOMAIN image \cup Places(a, n) |->
                IF x \in Places(a, n) THEN <<loads, line, (x - a) % LoaderBusMod>> ELSE image[x]]
    BY StoredIndexes DEF L!StoreRecord, L!Overlay, Places
  <1>2. DOMAIN image' = DOMAIN image \cup Places(a, n)
    BY <1>1
  <1>3. Places(a, n) \subseteq 0 .. memory_size - 1
    BY PlacesInMemory DEF LoadTypesAre
  <1>4. QED
    BY <1>2, <1>3 DEF LoadTypesAre

\* Every step of a loading session keeps the types, whatever the file.
LEMMA LoadTypesNext ==
    ASSUME LoadTypesAre, L!Next \/ UNCHANGED loaderVars
    PROVE  LoadTypesAre'
  <1>1. /\ AddrMod \in Nat \ {0} /\ LoaderBusMod \in Nat \ {0} /\ MaxLoads \in Nat /\ MaxLines \in Nat
        /\ 0 \in 0 .. AddrMod - 1
        /\ \A x \in Int : x % AddrMod \in 0 .. AddrMod - 1
    BY LoaderConstants
  <1>2. ASSUME NEW s \in Seq(L!LineSet \cup {"byte"}), L!Read(s),
               format \in {"srec", "ihex"} => s \in Seq(L!LineSet)
        PROVE  /\ linesRead' \in 0..MaxLines /\ FileTyped' /\ position' \in 0..Len(file')
               /\ format \in {"srec", "ihex"} => (file \o s)[position + 1] \in L!LineSet
               /\ UNCHANGED <<memory_size, format, loads>>
    <2>1. /\ file' = file \o s /\ position' = position + 1
          /\ IF position < Len(file) THEN s = <<>> /\ linesRead' = linesRead
             ELSE s # <<>> /\ linesRead < MaxLines /\ linesRead' = linesRead + 1
          /\ UNCHANGED <<memory_size, format, loads>>
      BY <1>2 DEF L!Read, L!Advance
    <2>2. linesRead' \in 0..MaxLines
      <3>1. linesRead \in 0..MaxLines /\ MaxLines \in Nat
        BY <1>1, Zenon DEF LoadTypesAre
      <3>2. QED
        BY <2>1, <3>1
    <2>3. /\ file' \in Seq(L!LineSet \cup {"byte"}) /\ Len(file') = Len(file) + Len(s)
          /\ Len(file) \in Nat /\ Len(s) \in Nat /\ position \in 0..Len(file)
      <3>1. file \in Seq(L!LineSet \cup {"byte"}) /\ position \in 0..Len(file)
        BY DEF LoadTypesAre, FileTyped
      <3>2. PICK T : T = L!LineSet \cup {"byte"}
        OBVIOUS
      <3>3. file \o s \in Seq(T) /\ Len(file \o s) = Len(file) + Len(s)
        BY <3>1, <3>2, JoinFacts
      <3>4. Len(file) \in Nat /\ Len(s) \in Nat
        BY <3>1
      <3>5. QED
        BY <2>1, <3>1, <3>2, <3>3, <3>4
    <2>4. s # <<>> => Len(s) > 0
      BY <2>3
    <2>5. position + 1 <= Len(file')
      BY <2>1, <2>3, <2>4
    <2>6. position' \in 0..Len(file') /\ position + 1 \in 1..Len(file')
      BY <2>1, <2>3, <2>5
    <2>7. format \in {"srec", "ihex"} => file' \in Seq(L!LineSet)
      BY <1>2, <2>1 DEF LoadTypesAre, FileTyped
    <2>8. FileTyped'
      BY <2>1, <2>3, <2>7 DEF FileTyped
    <2>9. format \in {"srec", "ihex"} => (file \o s)[position + 1] \in L!LineSet
      BY <2>1, <2>6, <2>7
    <2>10. QED
      BY <2>1, <2>2, <2>6, <2>8, <2>9
  <1>3. ASSUME NEW f \in {"srec", "ihex", "bin"}, NEW at \in 0 .. AddrMod - 1, L!Open(f, at)
        PROVE  LoadTypesAre'
    <2>1. /\ loads < MaxLoads /\ loads' = loads + 1
          /\ format' = f /\ open' = TRUE /\ base' = 0
          /\ size_out' = 0 /\ address' = at /\ current_addr' = at
          /\ position' = 0 /\ file' = <<>>
          /\ UNCHANGED <<memory_size, image, entry, linesRead>>
      BY <1>3 DEF L!Open
    <2>2. loads' \in 0..MaxLoads
      BY <1>1, <2>1 DEF LoadTypesAre
    <2>3. open' \in BOOLEAN /\ format' \in {"none", "srec", "ihex", "bin"}
      BY <2>1
    <2>4. FileTyped' /\ position' \in 0..Len(file')
      BY <2>1 DEF FileTyped
    <2>5. QED
      BY <1>1, <2>1, <2>2, <2>3, <2>4 DEF LoadTypesAre
  <1>4. ASSUME NEW s \in SrecLines \cup {<<>>}, L!LoadSrecLine(s)
        PROVE  LoadTypesAre'
    <2>1. PICK r : r = L!Fgets(s, L!SrecBuffer)
      OBVIOUS
    <2>2. PICK n : n = position + 1
      OBVIOUS
    <2>3. /\ format = "srec" /\ L!Read(s) /\ UNCHANGED L!bin /\ base' = base
          /\ \/ UNCHANGED <<image, entry, open>>
             \/ /\ L!SrecTaken(r)
                /\ image' = L!StoreRecord(image, r.addr, r.count - L!AddrLen(r.type) - 1, n)
                /\ UNCHANGED <<entry, open>>
             \/ entry' = r.addr /\ open' = FALSE /\ image' = image
      BY <1>4, <2>1, <2>2 DEF L!LoadSrecLine, L!Line
    <2>4. s \in Seq(L!LineSet) /\ s \in Seq(L!LineSet \cup {"byte"})
      <3>1. s \in Seq(L!LineSet)
        BY LoaderConstants
      <3>2. QED
        BY <3>1
    <2>5. /\ r.addr \in 0 .. AddrMod - 1 /\ r.addr \in Nat
          /\ L!SrecTaken(r) => r.count - L!AddrLen(r.type) - 1 \in Nat
      <3>1. PICK l \in L!LineSet : l = (file \o s)[position + 1]
        BY <1>2, <2>3, <2>4
      <3>2. r = Cut(l, L!SrecBuffer)
        BY <2>1, <3>1, FgetsCuts
      <3>3. r.type = l.type /\ r.count = l.count /\ r.addr = l.addr
        BY <3>2, CutFacts DEF L!SrecBuffer
      <3>4. l.type \in 0..255 /\ l.count \in 0..255 /\ l.addr \in 0 .. AddrMod - 1
        BY <3>1, LineFacts
      <3>5. L!SrecTaken(r) => r.type \in {0, 1, 2, 3, 7, 8, 9} /\ r.count >= L!AddrLen(r.type) + 1
        BY DEF L!SrecTaken
      <3>6. r.type \in {0, 1, 2, 3, 7, 8, 9} => L!AddrLen(r.type) \in 2..4
        BY DEF L!AddrLen
      <3>7. r.addr \in 0 .. AddrMod - 1 /\ r.addr \in Nat
        BY <1>1, <3>3, <3>4
      <3>8. ASSUME L!SrecTaken(r) PROVE r.count - L!AddrLen(r.type) - 1 \in Nat
        <4>1. PICK w \in 2..4 : w = L!AddrLen(r.type)
          BY <3>5, <3>6, <3>8
        <4>2. PICK c \in 0..255 : c = r.count
          BY <3>3, <3>4
        <4>3. c >= w + 1
          BY <3>5, <3>8, <4>1, <4>2
        <4>4. QED
          BY <4>1, <4>2, <4>3
      <3>9. QED
        BY <3>7, <3>8
    <2>6. DOMAIN image' \subseteq 0 .. memory_size - 1
      <3>1. CASE image' = image
        BY <3>1 DEF LoadTypesAre
      <3>2. CASE /\ L!SrecTaken(r)
                 /\ image' = L!StoreRecord(image, r.addr, r.count - L!AddrLen(r.type) - 1, n)
        <4>1. PICK a \in Nat, d \in Nat : a = r.addr /\ d = r.count - L!AddrLen(r.type) - 1
          BY <2>5, <3>2
        <4>2. QED
          BY <3>2, <4>1, StoredInMemory
      <3>3. QED
        BY <2>3, <3>1, <3>2
    <2>7. /\ linesRead' \in 0..MaxLines /\ FileTyped' /\ position' \in 0..Len(file')
          /\ UNCHANGED <<memory_size, format, loads, address, current_addr, size_out>>
      BY <1>2, <2>3, <2>4 DEF L!bin
    <2>8. open' \in BOOLEAN
      BY <2>3, Zenon DEF LoadTypesAre
    <2>9. entry' \in 0 .. AddrMod - 1
      BY <2>3, <2>5 DEF LoadTypesAre
    <2>10. QED
      BY <2>3, <2>6, <2>7, <2>8, <2>9 DEF LoadTypesAre
  <1>5. ASSUME NEW s \in IhexLines \cup {<<>>}, L!LoadIhexLine(s)
        PROVE  LoadTypesAre'
    <2>1. PICK r : r = L!Fgets(s, L!IhexBuffer)
      OBVIOUS
    <2>2. PICK n : n = position + 1
      OBVIOUS
    <2>3. /\ format = "ihex" /\ L!Read(s) /\ UNCHANGED L!bin
          /\ image' = image \/ image' = L!StoreRecord(image, base + r.addr, r.count, n)
          /\ entry' = entry \/ entry' = L!Operand(r)
          /\ base' = base \/ base' = L!Operand(r)
          /\ open' = open \/ open' = FALSE
      BY <1>5, <2>1, <2>2 DEF L!LoadIhexLine, L!Line
    <2>4. s \in Seq(L!LineSet) /\ s \in Seq(L!LineSet \cup {"byte"})
      <3>1. s \in Seq(L!LineSet)
        BY LoaderConstants
      <3>2. QED
        BY <3>1
    <2>5. /\ r.addr \in Nat /\ r.count \in Nat /\ L!Operand(r) \in 0 .. AddrMod - 1
      <3>1. PICK l \in L!LineSet : l = (file \o s)[position + 1]
        BY <1>2, <2>3, <2>4
      <3>2. r = Cut(l, L!IhexBuffer)
        BY <2>1, <3>1, FgetsCuts
      <3>3. r.count = l.count /\ r.addr = l.addr
        BY <3>2, CutFacts DEF L!IhexBuffer
      <3>4. l.count \in 0..255 /\ l.addr \in 0 .. AddrMod - 1
        BY <3>1, LineFacts
      <3>5. L!Operand(r) = L!Operand(l) /\ L!Operand(l) \in 0 .. AddrMod - 1
        BY <3>2, IhexSame, OperandType
      <3>6. l.addr \in Nat /\ l.count \in Nat
        <4>1. \A x \in 0 .. AddrMod - 1 : x \in Nat
          BY <1>1
        <4>2. \A x \in 0..255 : x \in Nat
          OBVIOUS
        <4>3. QED
          BY <3>4, <4>1, <4>2, Zenon
      <3>7. r.addr \in Nat /\ r.count \in Nat
        BY <3>3, <3>6, Zenon
      <3>8. L!Operand(r) \in 0 .. AddrMod - 1
        BY <3>5, Zenon
      <3>9. QED
        BY <3>7, <3>8, Zenon
    <2>6. DOMAIN image' \subseteq 0 .. memory_size - 1
      <3>1. CASE image' = image
        BY <3>1 DEF LoadTypesAre
      <3>2. CASE image' = L!StoreRecord(image, base + r.addr, r.count, n)
        <4>1. base \in Nat
          BY <1>1 DEF LoadTypesAre
        <4>2. PICK a \in Nat, d \in Nat : a = base + r.addr /\ d = r.count
          BY <2>5, <4>1
        <4>3. QED
          BY <3>2, <4>2, StoredInMemory
      <3>3. QED
        BY <2>3, <3>1, <3>2
    <2>7. /\ linesRead' \in 0..MaxLines /\ FileTyped' /\ position' \in 0..Len(file')
          /\ UNCHANGED <<memory_size, format, loads, address, current_addr, size_out>>
      BY <1>2, <2>3, <2>4 DEF L!bin
    <2>8. open' \in BOOLEAN
      BY <2>3, Zenon DEF LoadTypesAre
    <2>9. entry' \in 0 .. AddrMod - 1 /\ base' \in 0 .. AddrMod - 1
      BY <2>3, <2>5 DEF LoadTypesAre
    <2>10. QED
      BY <2>6, <2>7, <2>8, <2>9 DEF LoadTypesAre
  <1>6. ASSUME L!LoadBinByte
        PROVE  LoadTypesAre'
    <2>1. /\ format = "bin" /\ L!Read(<<"byte">>) /\ UNCHANGED <<entry, base, address>>
          /\ image' = L!loader_store(image, current_addr, <<loads, 1, Len(file)>>)
          /\ \/ current_addr' = (current_addr + 1) % AddrMod /\ UNCHANGED <<open, size_out>>
             \/ /\ open' = FALSE /\ size_out' = (current_addr - address) % AddrMod
                /\ UNCHANGED current_addr
      BY <1>6 DEF L!LoadBinByte
    <2>2. DOMAIN image' \subseteq 0 .. memory_size - 1
      <3>1. PICK x : x = current_addr % LoaderBusMod
        OBVIOUS
      <3>2. DOMAIN image' \subseteq IF x < memory_size THEN DOMAIN image \cup {x} ELSE DOMAIN image
        BY <2>1, <3>1 DEF L!loader_store, L!InMemory
      <3>3. x \in Nat
        BY <1>1, <3>1 DEF LoadTypesAre
      <3>4. x < memory_size => x \in 0 .. memory_size - 1
        BY <3>3 DEF LoadTypesAre
      <3>5. QED
        BY <3>2, <3>4 DEF LoadTypesAre
    <2>3. /\ linesRead' \in 0..MaxLines /\ FileTyped' /\ position' \in 0..Len(file')
          /\ UNCHANGED <<memory_size, format, loads>>
      <3>1. <<"byte">> \in Seq(L!LineSet \cup {"byte"})
        OBVIOUS
      <3>2. QED
        BY <1>2, <2>1, <3>1
    <2>4. open' \in BOOLEAN
      BY <2>1, Zenon DEF LoadTypesAre
    <2>5. (current_addr + 1) % AddrMod \in 0 .. AddrMod - 1
          /\ (current_addr - address) % AddrMod \in 0 .. AddrMod - 1
      <3>1. current_addr + 1 \in Int /\ current_addr - address \in Int
        BY <1>1 DEF LoadTypesAre
      <3>2. QED
        BY <1>1, <3>1
    <2>6. current_addr' \in 0 .. AddrMod - 1 /\ size_out' \in 0 .. AddrMod - 1
      BY <2>1, <2>5 DEF LoadTypesAre
    <2>7. QED
      BY <2>1, <2>2, <2>3, <2>4, <2>6 DEF LoadTypesAre
  <1>7. ASSUME L!EndOfFile
        PROVE  LoadTypesAre'
    <2>1. /\ open' = FALSE
          /\ size_out' = size_out \/ size_out' = (current_addr - address) % AddrMod
          /\ UNCHANGED <<memory_size, image, entry, format, base, address, current_addr, loads, linesRead,
                         position, file>>
      BY <1>7 DEF L!EndOfFile
    <2>2. current_addr - address \in Int
      BY <1>1 DEF LoadTypesAre
    <2>3. (current_addr - address) % AddrMod \in 0 .. AddrMod - 1
      BY <1>1, <2>2
    <2>4. size_out' \in 0 .. AddrMod - 1
      BY <2>1, <2>3 DEF LoadTypesAre
    <2>5. open' \in BOOLEAN
      BY <2>1
    <2>6. QED
      BY <2>1, <2>4, <2>5 DEF LoadTypesAre, FileTyped
  <1>8. UNCHANGED loaderVars => LoadTypesAre'
    BY DEF loaderVars, LoadTypesAre, FileTyped
  <1>9. QED
    BY <1>1, <1>3, <1>4, <1>5, <1>6, <1>7, <1>8, LoaderConstants DEF L!Next

\* The loaders write inside bound memory only and no damaged save state makes the
\* context invalid, for every file and every buffer.
THEOREM HostTyped == HostSpec => []HostTypeOK
  <1>1. HostInit => LoadTypesAre
    <2>1. L!Init => FileTyped
      BY DEF L!Init, FileTyped
    <2>2. QED
      BY <2>1, LoadStarts, LoadTypesSame DEF HostInit, LoadInv
  <1>2. LoadTypesAre /\ [HostNext]_hostVars => LoadTypesAre'
    BY HostLoads, LoadTypesNext
  <1>3. HostSpec => []LoadTypesAre
    BY <1>1, <1>2, PTL DEF HostSpec
  <1>4. LoadTypesAre /\ SaveInv => HostTypeOK
    BY LoadTypesSame DEF HostTypeOK, SaveInv
  <1>5. QED
    BY <1>3, <1>4, SaveInductive, PTL
===============================================================================
