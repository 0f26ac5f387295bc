------------------------------ MODULE SaveState ------------------------------
(***************************************************************************)
(* Portable save states: m68k_serialize and m68k_deserialize.  The format  *)
(* is a header and a list of tagged fields; the model keeps the tags, the  *)
(* lengths in bytes and where the data ends, and one value per field.      *)
(* Between the two calls the processor runs on and the stored bytes may be *)
(* cut or damaged, or come from a newer library with more fields.          *)
(***************************************************************************)
EXTENDS Integers, SequencesExt

CONSTANTS
    Values,      \* values of a field; those above MaxModel are no model
    Capacities,  \* buffer sizes the host calls m68k_serialize with
    MaxSaves     \* bound: states stored

MaxModel == 1     \* M68K_MODEL_68010
HeaderSize == 8

\* The order in which fields are written, and the payload of each.
Order == <<"DREGS", "AREGS", "PC", "SR", "USP", "SSP", "VBR", "SFC", "DFC", "FLAGS",
           "DECODE", "CYCLES", "MODEL">>
Payload == [DREGS |-> 32, AREGS |-> 32, PC |-> 4, SR |-> 2, USP |-> 4, SSP |-> 4, VBR |-> 4,
            SFC |-> 4, DFC |-> 4, FLAGS |-> 4, DECODE |-> 6, CYCLES |-> 8, MODEL |-> 4]
Tags == DOMAIN Payload

SaveStateAssumption ==
    /\ Values \subseteq Nat /\ 0 \in Values /\ Capacities \subseteq Nat /\ MaxSaves \in Nat

Context == {c \in [Tags -> Values] : c["MODEL"] <= MaxModel}

VARIABLES
    cpu,       \* the serialised fields of the context
    latched,   \* is one of the transient fault latches set?
    header,    \* "good", or what is wrong with magic or version
    fields,    \* the fields of the stored state: tag, length byte, value
    length,    \* bytes of the stored state
    call,      \* the function that is running: "none", "serialize", "deserialize"
    p,         \* its pointer into the buffer: bytes written or read so far
    next,      \* the field it comes to
    outcome,   \* of the last call
    saves,     \* states stored so far
    saved, damage, before   \* history: the context serialised, what happened
                            \* to its bytes, the context before the restore

vars == <<cpu, latched, header, fields, length, call, p, next, outcome, saves, saved, damage,
          before>>
stored == <<header, fields, length>>
history == <<saves, saved, damage, before>>

Return(result) == call' = "none" /\ p' = 0 /\ next' = 1 /\ outcome' = result

(***************************************************************************)
(* m68k_serialize, one field at a time.                                    *)
(***************************************************************************)
\* The size the code computes before it writes anything.
Need == 8 + (2 + 32) * 2 + (2 + 4) * 6 + (2 + 2) + (2 + 4) + (2 + 6) + (2 + 8) + (2 + 4)

Serialize(capacity) ==
    /\ call = "none"
    /\ IF capacity < Need
       THEN Return("nospace") /\ UNCHANGED <<stored, saves, saved, damage>>
       ELSE /\ saves < MaxSaves /\ saves' = saves + 1
            /\ call' = "serialize" /\ outcome' = "none" /\ p' = HeaderSize /\ next' = 1
            /\ header' = "good" /\ fields' = <<>> /\ length' = 0
            /\ saved' = cpu /\ damage' = "none"
    /\ before' = cpu /\ UNCHANGED <<cpu, latched>>

WriteField ==
    /\ call = "serialize" /\ next <= Len(Order)
    /\ LET tag == Order[next]
       IN  /\ fields' = Append(fields, [tag |-> tag, len |-> Payload[tag], value |-> cpu[tag]])
           /\ p' = p + 2 + Payload[tag]
    /\ next' = next + 1
    /\ UNCHANGED <<cpu, latched, header, length, call, outcome, history>>

Written ==
    /\ call = "serialize" /\ next > Len(Order)
    /\ length' = p /\ Return("written")
    /\ UNCHANGED <<cpu, latched, header, fields, history>>

(***************************************************************************)
(* m68k_deserialize, one field at a time.  A field that the data does not  *)
(* hold, a length that is not the tag's and an unknown model are refused;  *)
(* an unknown tag is skipped; everything else is written to the context.   *)
(***************************************************************************)
Deserialize ==
    /\ call = "none" /\ fields # <<>>
    /\ \/ /\ length < HeaderSize \/ header # "good"
          /\ Return("refused")
       \/ /\ length >= HeaderSize /\ header = "good"
          /\ call' = "deserialize" /\ outcome' = "none" /\ p' = HeaderSize /\ next' = 1
    /\ before' = cpu /\ UNCHANGED <<cpu, latched, stored, saves, saved, damage>>

Refused(f) ==
    \/ length - p < 2 \/ length - p - 2 < f.len
    \/ f.tag \in Tags /\ f.len # Payload[f.tag]
    \/ f.tag = "MODEL" /\ f.value > MaxModel

\* Faulty variants: the length byte of a field is ignored; an unknown tag is refused;
\* the fields behind a refused one are parsed before the call returns.
Width(f) == IF f.tag \in Tags THEN Payload[f.tag] ELSE f.len
ParseFieldAnyLength ==
    /\ call = "deserialize" /\ p < length
    /\ LET f == fields[next]
           bad == length - p - 2 < Width(f) \/ (f.tag = "MODEL" /\ f.value > MaxModel)
       IN  \/ bad /\ Return("refused") /\ UNCHANGED cpu
           \/ /\ ~bad
              /\ cpu' = IF f.tag \in Tags THEN [cpu EXCEPT ![f.tag] = f.value] ELSE cpu
              /\ p' = p + 2 + Width(f) /\ next' = next + 1 /\ UNCHANGED <<call, outcome>>
    /\ UNCHANGED <<latched, stored, history>>
ParseFieldKnownOnly ==
    /\ call = "deserialize" /\ p < length
    /\ LET f == fields[next]
       IN  \/ /\ Refused(f) \/ f.tag \notin Tags
              /\ Return("refused") /\ UNCHANGED cpu
           \/ /\ ~Refused(f) /\ f.tag \in Tags
              /\ cpu' = [cpu EXCEPT ![f.tag] = f.value]
              /\ p' = p + 2 + f.len /\ next' = next + 1 /\ UNCHANGED <<call, outcome>>
    /\ UNCHANGED <<latched, stored, history>>
ParseFieldRunningOn ==
    /\ call = "deserialize" /\ p < length
    /\ LET f == fields[next]
           behind(t) == {i \in next + 1 .. Len(fields) : fields[i].tag = t}
       IN  \/ /\ Refused(f) /\ Return("refused")
              /\ cpu' = [t \in Tags |-> IF behind(t) = {} THEN cpu[t]
                                        ELSE fields[Max(behind(t))].value]
           \/ /\ ~Refused(f)
              /\ cpu' = IF f.tag \in Tags THEN [cpu EXCEPT ![f.tag] = f.value] ELSE cpu
              /\ p' = p + 2 + f.len /\ next' = next + 1 /\ UNCHANGED <<call, outcome>>
    /\ UNCHANGED <<latched, stored, history>>

ParseField ==
    /\ call = "deserialize" /\ p < length
    /\ LET f == fields[next]
       IN  \/ Refused(f) /\ Return("refused") /\ UNCHANGED cpu
           \/ /\ ~Refused(f)
              /\ cpu' = IF f.tag \in Tags THEN [cpu EXCEPT ![f.tag] = f.value] ELSE cpu
              /\ p' = p + 2 + f.len /\ next' = next + 1 /\ UNCHANGED <<call, outcome>>
    /\ UNCHANGED <<latched, stored, history>>

\* "Transient fault latches never restore as active."
Restored ==
    /\ call = "deserialize" /\ p >= length
    /\ latched' = FALSE /\ Return("restored")
    /\ UNCHANGED <<cpu, stored, history>>

(***************************************************************************)
(* The environment.                                                        *)
(***************************************************************************)
\* The processor runs: every field may have changed.
Run ==
    /\ call = "none"
    /\ \E v \in Values : v <= MaxModel /\ cpu' = [t \in Tags |-> v]
    /\ latched' = TRUE /\ outcome' = "none" /\ before' = cpu'
    /\ UNCHANGED <<stored, call, p, next, saves, saved, damage>>

Intact == call = "none" /\ damage = "none" /\ fields # <<>>
Damaged ==
    outcome' = "none" /\ before' = cpu /\ UNCHANGED <<cpu, latched, call, p, next, saves, saved>>

Truncate ==
    /\ Intact /\ damage' = "cut"
    /\ length' \in 0 .. length - 1
    /\ Damaged /\ UNCHANGED <<header, fields>>

\* A newer library has written fields of its own.
AddUnknownField ==
    /\ Intact /\ damage' = "newer"
    /\ \E i \in 1 .. Len(fields) + 1, n \in {0, 3} :
          /\ fields' = InsertAt(fields, i, [tag |-> "UNKNOWN", len |-> n, value |-> 0])
          /\ length' = length + 2 + n
    /\ Damaged /\ UNCHANGED header

DamageField ==
    /\ Intact
    /\ \E i \in 1..Len(fields) :
          \/ /\ \E n \in {Payload[fields[i].tag] - 1, Payload[fields[i].tag] + 1} :
                   fields' = [fields EXCEPT ![i].len = n]
             /\ damage' = "length"
          \/ /\ fields[i].tag = "MODEL" /\ damage' = "model"
             /\ \E v \in {v \in Values : v > MaxModel} : fields' = [fields EXCEPT ![i].value = v]
    /\ Damaged /\ UNCHANGED <<header, length>>

DamageHeader ==
    /\ Intact /\ damage' = "header"
    /\ header' \in {"magic", "version"}
    /\ Damaged /\ UNCHANGED <<fields, length>>

Init ==
    /\ cpu = [t \in Tags |-> 0] /\ latched = FALSE
    /\ header = "good" /\ fields = <<>> /\ length = 0
    /\ call = "none" /\ p = 0 /\ next = 1 /\ outcome = "none"
    /\ saves = 0 /\ saved = cpu /\ damage = "none" /\ before = cpu

Next ==
    \/ \E capacity \in Capacities : Serialize(capacity)
    \/ WriteField \/ Written
    \/ Deserialize \/ ParseField \/ Restored
    \/ Run
    \/ Truncate \/ AddUnknownField \/ DamageField \/ DamageHeader

Spec == Init /\ [][Next]_vars

(***************************************************************************)
(* Properties.                                                             *)
(***************************************************************************)

\* Type correctness; in particular no damaged state makes the context invalid.
TypeOK ==
    /\ cpu \in Context /\ saved \in Context /\ before \in Context
    /\ latched \in BOOLEAN /\ header \in {"good", "magic", "version"}
    /\ length \in Nat /\ p \in Nat /\ next \in 1 .. Len(fields) + 1 /\ saves \in 0..MaxSaves
    /\ call \in {"none", "serialize", "deserialize"}
    /\ outcome \in {"none", "written", "nospace", "restored", "refused"}
    /\ \A i \in DOMAIN fields : fields[i].tag \in Tags \cup {"UNKNOWN"}

\* What m68k_serialize writes has the size it announced and is accepted again:
\* a state that was stored and read back whole restores every field, whatever
\* the processor did in between, and so does one with fields of a newer library.
RoundTrip ==
    /\ outcome = "written" => length = Need
    /\ outcome \in {"restored", "refused"} /\ damage \in {"none", "newer"}
          => outcome = "restored" /\ cpu = saved /\ ~latched

\* A wrong header, field length or model number is refused.
DamageRefused ==
    outcome \in {"restored", "refused"} /\ damage \in {"header", "length", "model"}
        => outcome = "refused"

\* m68k_deserialize writes as it parses.  What a refused state, or one cut between
\* two fields, leaves behind is the stored fields up to some point and the old ones
\* after it: nothing behind the point of refusal is applied, and nothing is applied
\* of a bad header.
AppliedIsPrefix ==
    outcome = "refused" \/ (outcome = "restored" /\ damage = "cut") =>
        \E k \in 0..Len(Order) :
            /\ \A i \in 1..Len(Order) : cpu[Order[i]] = (IF i <= k THEN saved ELSE before)[Order[i]]
            /\ damage = "header" => cpu = before
=============================================================================
