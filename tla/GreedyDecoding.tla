---------------------------- MODULE GreedyDecoding ----------------------------
(***************************************************************************)
(* What speculative inference promises: a request is decoded greedily, by  *)
(* one or more tokens at a time, up to the length it asked for, and then   *)
(* its result is published, once and whole.  How many tokens an iteration  *)
(* yields is all that the guesses of the small model may change.           *)
(***************************************************************************)
EXTENDS Integers, Sequences

CONSTANT MaxGrowth      \* the tokens an iteration may yield for a request

VARIABLE request        \* per guid: length, limit, and length of the result

Init == request = <<>>

Submit ==
    /\ Len(request') = Len(request) + 1
    /\ SubSeq(request', 1, Len(request)) = request
    /\ LET r == request'[Len(request')]
       IN  r.length > 0 /\ r.result = 0

\* r gets n tokens, the last ones beyond its limit excepted.
Extended(r, n) ==
    IF r.length + n < r.limit THEN [r EXCEPT !.length = @ + n]
    ELSE LET final == IF r.length < r.limit THEN r.limit ELSE r.length
         IN  [r EXCEPT !.length = final, !.result = final]

Decode ==
    /\ DOMAIN request' = DOMAIN request
    /\ \A g \in DOMAIN request :
          \/ request'[g] = request[g]
          \/ /\ request[g].result = 0
             /\ \E n \in 1 .. MaxGrowth : request'[g] = Extended(request[g], n)

Next == Submit \/ Decode

Spec == Init /\ [][Next]_request

=============================================================================
