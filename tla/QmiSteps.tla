-------------------------------- MODULE QmiSteps --------------------------------
(***************************************************************************)
(* The vocabulary in which the operations of the QMI services are written  *)
(* down (pkg/qmi/*.go): what an operation asks, and what the decoder of    *)
(* the answer, or of an indication, compares with the length of a TLV      *)
(* before it reads from it.  A program is a sequence of these steps;       *)
(* QmiDecoding says what they do.  Values are left out, lengths and counts *)
(* are kept; Either stands for a branch on a value.                        *)
(***************************************************************************)
EXTENDS Integers, Sequences

\* Arguments may be refused before anything is sent; a request is sent and answered, or
\* not; the result code of the answer is looked at.
Refuse == <<[op |-> "refuse"]>>
Ask    == <<[op |-> "ask"]>>
Result == <<[op |-> "result"]>>
Query  == Ask \o Result

\* The result code is looked at only if the answer has one.
ResultIfThere == <<[op |-> "resultifthere"]>>

\* If body ends in an error, other is done instead.
Try(body, other) == body \o <<[op |-> "catch", other |-> other]>>

\* FindTLV: `absent' says what happens without the TLV ("skip" its body, "fail", or
\* "return" what there is), `body' reads it.
Tlv(absent, body) == <<[op |-> "tlv", absent |-> absent, body |-> body]>>

\* The length is compared: when n bytes more are not there, `short' happens ("skip"
\* leaves the body, "fail" is an error, "return" ends the operation without one).
Need(n, short) == <<[op |-> "need", n |-> n, short |-> short]>>

\* The count read last must not be less than n.
AtLeast(n, short) == <<[op |-> "atleast", n |-> n, short |-> short]>>

\* n bytes more are read.
Take(n) == <<[op |-> "take", n |-> n]>>

\* If n bytes more are there, body.
If(n, body) == <<[op |-> "if", n |-> n, body |-> body]>>

\* An n-byte count or length is read, or AnyCount is taken from the value, or AnyWord is
\* added up from as many bytes as there are; NeedTimes and TakeTimes compare and read that
\* many times n bytes, Each repeats its body.  NeedTimesMore asks for some bytes beyond;
\* NeedTimesInWord adds the bytes before, in the width of the number.
Count(n)                       == <<[op |-> "count", n |-> n]>>
AnyCount                       == <<[op |-> "any", word |-> FALSE]>>
AnyWord                        == <<[op |-> "any", word |-> TRUE]>>
NeedTimesMore(n, more, short)  ==
    <<[op |-> "needtimes", n |-> n, more |-> more, word |-> FALSE, short |-> short]>>
NeedTimes(n, short)            == NeedTimesMore(n, 0, short)
NeedTimesInWord(before, short) ==
    <<[op |-> "needtimes", n |-> 1, more |-> before, word |-> TRUE, short |-> short]>>
TakeTimes(n)                   == <<[op |-> "taketimes", n |-> n]>>
Each(body)                     == <<[op |-> "each", body |-> body]>>

\* A branch on a value; a body that "skip" leaves; the operation ends, with an error or not.
Either(a, b) == <<[op |-> "either", a |-> a, b |-> b]>>
Block(body)  == <<[op |-> "block", body |-> body]>>
Skip         == <<[op |-> "leave", how |-> "skip"]>>
Fail         == <<[op |-> "leave", how |-> "fail"]>>
Return       == <<[op |-> "leave", how |-> "return"]>>

\* Something of the answer was understood; it is an error (or the end) if nothing was.
Found          == <<[op |-> "found"]>>
NeedFound(how) == <<[op |-> "needfound", how |-> how]>>

\* The number of an argument's entries is sent in w bytes; LengthUpTo says that a longer
\* argument was refused before.
Length(w)     == <<[op |-> "length", bounded |-> FALSE]>>
LengthUpTo(n) == <<[op |-> "refuse"], [op |-> "length", bounded |-> TRUE]>>

(***************************************************************************)
(* The usual combinations.                                                 *)
(***************************************************************************)
\* A field of n bytes: optional, or an error without it.
May(n)  == Tlv("skip", Need(n, "skip") \o Take(n))
Must(n) == Tlv("fail", Need(n, "fail") \o Take(n))

\* A TLV whose whole value is taken, whatever its length.
Whole  == Tlv("skip", <<>>)

\* n bytes are compared and read; a string or list of entries of n bytes after a count of
\* w bytes, compared with what is left all at once.
Field(n, short)   == Need(n, short) \o Take(n)
List(w, n, short) == Need(w, short) \o Count(w) \o NeedTimes(n, short) \o TakeTimes(n)
=============================================================================
