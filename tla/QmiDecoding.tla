------------------------------- MODULE QmiDecoding -------------------------------
(***************************************************************************)
(* What the steps of QmiSteps do, for answers and indications of any       *)
(* length.  A message that is shorter than its decoder expects must end in *)
(* an error or in an absent field, never in a read past the end of a TLV,  *)
(* which would bring the process down (client.go's goroutines recover from *)
(* no panic).                                                              *)
(*                                                                         *)
(* The length of the TLV at hand is not chosen in advance: `avail' is how  *)
(* many bytes the comparisons made so far have shown to be left in it, so  *)
(* that a behaviour stands for all lengths.                                *)
(***************************************************************************)
EXTENDS QmiSteps, FiniteSets, SequencesExt

CONSTANTS Programs,   \* the operations and decoders of the services
          MaxCount    \* bound on the entries a message says it has

DecodingAssumption == MaxCount \in Nat \ {0}

VARIABLES program,   \* the program that runs
          todo,      \* the steps that are left
          avail,     \* bytes of the TLV known to be left
          count,     \* the count read last
          answer,    \* what the result code of the answer says
          found,     \* something of the answer was understood
          wrapped,   \* what came of a length too large for its width: it was "sent", or
                     \* "compared" with what is left
          outcome    \* "idle", "runs", "ok", "failed" or "overrun": it read past the TLV

vars == <<program, todo, avail, count, answer, found, wrapped, outcome>>

Close == [op |-> "close"]

Init ==
    /\ program = <<>> /\ todo = <<>>
    /\ avail = 0 /\ count = 0 /\ answer = "none" /\ found = FALSE /\ wrapped = {}
    /\ outcome = "idle"

\* An operation is called, or an indication arrives.
Begins ==
    /\ outcome = "idle"
    /\ program' \in DOMAIN Programs
    /\ todo' = Programs[program']
    /\ outcome' = "runs"
    /\ UNCHANGED <<avail, count, answer, found, wrapped>>

At(op) == outcome = "runs" /\ todo # <<>> /\ Head(todo).op = op

\* The first step of a kind that is left, 0 without one.
First(op) == LET at == {i \in DOMAIN todo : todo[i].op = op} IN IF at = {} THEN 0 ELSE Min(at)

\* Where a step leads: on, or to what is done after an error, or out of the body, or to
\* the end.
GoesOn == todo' = Tail(todo) /\ UNCHANGED outcome

GoesAfter(i, instead) == todo' = instead \o SubSeq(todo, i + 1, Len(todo)) /\ UNCHANGED outcome

Leaves(how) ==
    LET catch == First("catch") IN
    CASE how = "fail" /\ catch = 0 -> outcome' = "failed" /\ todo' = <<>>
      [] how = "fail" /\ catch > 0 -> GoesAfter(catch, <<Close>> \o todo[catch].other)
      [] how = "return"            -> outcome' = "ok" /\ todo' = <<>>
      [] how = "skip"              -> GoesAfter(First("close"), <<Close>>)

\* CheckArguments: they may be refused.
Refuses ==
    /\ At("refuse")
    /\ GoesOn \/ Leaves("fail")
    /\ UNCHANGED <<program, avail, count, answer, found, wrapped>>

\* SendRequest: fails, or brings an answer, which grants, refuses, or does not say.
Asks ==
    /\ At("ask")
    /\ \/ Leaves("fail") /\ answer' = "none"
       \/ GoesOn /\ answer' \in {"granted", "refused", "silent"}
    /\ found' = FALSE
    /\ UNCHANGED <<program, avail, count, wrapped>>

\* CheckResult: an answer that does not say is an error like a refusal, except where the
\* result is looked at only if it is there.  An indication may have one.
ChecksResult ==
    /\ \/ At("result") /\ answer \in {"none", "granted", "seen"} /\ GoesOn
       \/ At("resultifthere") /\ answer \in {"none", "granted", "seen", "silent"} /\ GoesOn
       \/ (At("result") \/ At("resultifthere")) /\ answer \in {"none", "refused", "silent"} /\ Leaves("fail")
    /\ answer' = "seen"
    /\ UNCHANGED <<program, avail, count, found, wrapped>>

\* FindTLV; the body ends with Close.
Finds ==
    /\ At("tlv")
    /\ avail' = 0
    /\ \/ /\ todo' = Head(todo).body \o <<Close>> \o Tail(todo)
          /\ UNCHANGED outcome
       \/ IF Head(todo).absent = "skip" THEN GoesOn ELSE Leaves(Head(todo).absent)
    /\ UNCHANGED <<program, count, answer, found, wrapped>>

\* A comparison with what is left: it holds, and more is known, or it does not.
Compares(n) ==
    \/ /\ avail' = IF avail >= n THEN avail ELSE n
       /\ GoesOn
    \/ /\ avail < n
       /\ Leaves(Head(todo).short)
       /\ UNCHANGED avail

Needs ==
    /\ \/ At("need") /\ Compares(Head(todo).n)
       \/ /\ At("atleast")
          /\ IF count >= Head(todo).n THEN GoesOn ELSE Leaves(Head(todo).short)
          /\ UNCHANGED avail
    /\ UNCHANGED <<program, count, answer, found, wrapped>>

\* The bytes before were counted in the sum: they are there, or the sum has wrapped.
NeedsTimes ==
    /\ At("needtimes")
    /\ LET s    == Head(todo)
           wrap == s.word /\ count + s.more >= 65536 IN
       /\ Compares(IF s.word THEN ((count + s.more) % 65536) - s.more ELSE count * s.n + s.more)
       /\ wrapped' = IF wrap THEN wrapped \cup {"compared"} ELSE wrapped
    /\ UNCHANGED <<program, count, answer, found>>

IfMore ==
    /\ At("if")
    /\ LET s == Head(todo) IN
       \/ /\ avail' = IF avail >= s.n THEN avail ELSE s.n
          /\ todo' = s.body \o Tail(todo)
       \/ /\ avail < s.n
          /\ todo' = Tail(todo)
          /\ UNCHANGED avail
    /\ UNCHANGED <<program, count, answer, found, wrapped, outcome>>

\* A read past what is known to be there.
Reads(n) ==
    IF avail >= n THEN avail' = avail - n /\ GoesOn
                  ELSE outcome' = "overrun" /\ todo' = <<>> /\ UNCHANGED avail

Takes ==
    /\ \/ At("take") /\ Reads(Head(todo).n)
       \/ At("taketimes") /\ Reads(count * Head(todo).n)
    /\ UNCHANGED <<program, count, answer, found, wrapped>>

\* A count may be small, or more than a TLV holds.
Counts ==
    /\ At("count")
    /\ Reads(Head(todo).n)
    /\ count' \in 0 .. MaxCount \cup {IF Head(todo).n = 1 THEN 255 ELSE 65535}
    /\ UNCHANGED <<program, answer, found, wrapped>>

\* A number of repetitions that is not read.
Chooses ==
    /\ At("any")
    /\ count' \in 0 .. MaxCount \cup (IF Head(todo).word THEN {65535} ELSE {})
    /\ GoesOn
    /\ UNCHANGED <<program, avail, answer, found, wrapped>>

\* Every repetition compares for itself; MaxCount of them stand for more.
Repeats ==
    /\ At("each")
    /\ LET times == IF count > MaxCount THEN MaxCount ELSE count IN
       todo' = FlattenSeq([i \in 1 .. times |-> Head(todo).body]) \o Tail(todo)
    /\ UNCHANGED <<program, avail, count, answer, found, wrapped, outcome>>

Branches ==
    /\ At("either")
    /\ \E body \in {Head(todo).a, Head(todo).b} : todo' = body \o Tail(todo)
    /\ UNCHANGED <<program, avail, count, answer, found, wrapped, outcome>>

\* A body begins or ends: nothing is known of the bytes that come after it.
Nests ==
    /\ \/ At("block") /\ todo' = Head(todo).body \o <<Close>> \o Tail(todo) /\ UNCHANGED avail
       \/ At("close") /\ todo' = Tail(todo) /\ avail' = 0
       \/ At("catch") /\ todo' = Tail(todo) /\ UNCHANGED avail
    /\ UNCHANGED <<program, count, answer, found, wrapped, outcome>>

Ends ==
    /\ At("leave")
    /\ Leaves(Head(todo).how)
    /\ UNCHANGED <<program, avail, count, answer, found, wrapped>>

Notes ==
    /\ \/ At("found") /\ found' = TRUE /\ GoesOn
       \/ At("needfound") /\ UNCHANGED found /\ IF found THEN GoesOn ELSE Leaves(Head(todo).how)
    /\ UNCHANGED <<program, avail, count, answer, wrapped>>

SendsLength ==
    /\ At("length")
    /\ \/ UNCHANGED wrapped
       \/ ~Head(todo).bounded /\ wrapped' = wrapped \cup {"sent"}
    /\ GoesOn
    /\ UNCHANGED <<program, avail, count, answer, found>>

Returns ==
    /\ outcome = "runs" /\ todo = <<>>
    /\ outcome' = "ok"
    /\ UNCHANGED <<program, todo, avail, count, answer, found, wrapped>>

Next ==
    \/ Begins \/ Refuses \/ Asks \/ ChecksResult \/ Finds \/ Needs \/ NeedsTimes \/ IfMore \/ Takes \/ Counts
    \/ Chooses \/ Repeats \/ Branches \/ Nests \/ Ends \/ Notes \/ SendsLength \/ Returns

Spec == Init /\ [][Next]_vars

(***************************************************************************)
(* Properties.                                                             *)
(***************************************************************************)
DecodingTypeOK ==
    /\ program \in DOMAIN Programs \cup {<<>>}
    /\ \A i \in DOMAIN todo : "op" \in DOMAIN todo[i]
    /\ avail \in Int /\ count \in Nat
    /\ answer \in {"none", "granted", "refused", "silent", "seen"}
    /\ found \in BOOLEAN
    /\ wrapped \subseteq {"sent", "compared"}
    /\ outcome \in {"idle", "runs", "ok", "failed", "overrun"}

\* No decoder reads past the end of a TLV, whatever lengths and counts a message has.
\* Except where a length wraps before it is compared: ReadTransparentWithSession adds in
\* 16 bits, and parseLinearFixedMetaFromFCP takes more bytes than an int has.
ReadsInside == outcome = "overrun" => "compared" \in wrapped

\* No operation succeeds without a look at the result of its last request: what the modem
\* has refused is not taken for granted.
RefusalsReported == outcome = "ok" => answer # "refused"

\* What the decoders of all services promise.
DecodersSound == DecodingTypeOK /\ ReadsInside /\ RefusalsReported
=============================================================================
