------------------------------ MODULE Payloads ------------------------------
(***************************************************************************)
(* The JSON of a stream between a writer's body, the stored fragments and  *)
(* a reader's body.  A JSON value is one token, whatever its text; a       *)
(* fragment is a sequence of tokens, each value followed by a comma.       *)
(***************************************************************************)
EXTENDS Integers, Sequences, SequencesExt

CONSTANT Refused        \* the outcome of a request that is answered 400

Comma == <<",">>
Open == <<"[">>
Close == <<"]">>

(* Values are named by the generation, the offset and the place they were   *)
(* posted at.                                                               *)
Token == (Nat \X Nat \X Nat) \union {Comma, Open, Close}

(* The values of a body, which is one value or an array: arrays flatten.    *)
process_json_append(values) ==
    [i \in 1 .. 2 * Len(values) |->
        IF i % 2 = 1 THEN values[(i + 1) \div 2] ELSE Comma]

without_last_comma(tokens) ==
    IF tokens # <<>> /\ Last(tokens) = Comma THEN Front(tokens) ELSE tokens

(* Mutant: every fragment loses its comma. *)
format_joined(messages) ==
    <<Open>> \o FlattenSeq([i \in DOMAIN messages |-> without_last_comma(messages[i])])
             \o <<Close>>

format_json_messages(messages) ==
    <<Open>> \o without_last_comma(FlattenSeq(messages)) \o <<Close>>

(* What a JSON parser makes of an array: the values between the brackets,   *)
(* with a comma between every two and nowhere else.                         *)
array_of(tokens) ==
    LET inner == SubSeq(tokens, 2, Len(tokens) - 1)
    IN IF /\ Head(tokens) = Open /\ Last(tokens) = Close
          /\ inner = <<>> \/ Len(inner) % 2 = 1
          /\ \A i \in DOMAIN inner : inner[i] = Comma <=> i % 2 = 0
       THEN [n \in 1 .. (Len(inner) + 1) \div 2 |-> inner[2 * n - 1]]
       ELSE Refused

wrapped(first) == array_of(<<Open>> \o without_last_comma(first) \o <<Close>>)

(* Mutant: the sub-offset counts from zero. *)
prefix_from_zero(first, sub_offset) ==
    IF wrapped(first) = Refused \/ sub_offset >= Len(wrapped(first)) THEN Refused
    ELSE process_json_append(SubSeq(wrapped(first), 1, sub_offset + 1))

(* The part of its source's message that a fork at a sub-offset begins with. *)
sub_offset_prefix(first, sub_offset) ==
    IF wrapped(first) = Refused \/ sub_offset > Len(wrapped(first)) THEN Refused
    ELSE process_json_append([i \in 1 .. sub_offset |-> wrapped(first)[i]])
=============================================================================
