------------------------------ MODULE LogFetch ------------------------------
(***************************************************************************)
(* Fetching the log of a CI event.  It comes with the event, in one piece, *)
(* or as a list of pieces that are fetched one after the other, each asked *)
(* for no more than what is still missing, until the limit is reached.     *)
(* Sizes are counted in a small unit.                                      *)
(***************************************************************************)
EXTENDS Faults

CONSTANTS
    Limits,        \* the limits an operator may have configured, 0 for none
    DefaultLimit,  \* the limit taken for none
    MaxSize,       \* how long a piece may be, a bound
    MaxPieces      \* how many there may be, a bound

ASSUME LogAssumption ==
    /\ Limits \subseteq Nat /\ DefaultLimit \in Nat \ {0}
    /\ MaxSize \in Nat /\ MaxPieces \in Nat

VARIABLE fetch     \* the fetch under way, or its outcome

Kinds == {"inline", "whole", "wrapped", "list", "pieces", "none"}
Smaller(a, b) == IF a < b THEN a ELSE b

LogInit ==
    \E kind \in Kinds \ {"pieces"}, limit \in Limits :
        fetch = [kind |-> kind, limit |-> IF limit = 0 THEN DefaultLimit ELSE limit, pieces |-> 0,
                 got |-> 0, asked |-> {}, outcome |-> "pending"]

Pending == fetch.outcome = "pending"

(* A request reads at most its limit, and takes zero for no limit given. *)
FetchBytes(size, limit) == Smaller(size, IF limit = 0 THEN DefaultLimit ELSE limit)

(* What decoding makes of an answer of that size: escapes become shorter, a byte
   that is not UTF-8 becomes three.  One that was cut is no JSON and stays. *)
Decodings(size, limit) ==
    LET read == FetchBytes(size, limit) IN IF read < size THEN {read} ELSE 0..3 * read

Ends(outcome, got) == fetch' = [fetch EXCEPT !.outcome = outcome, !.got = got]

Inline ==
    /\ Pending /\ fetch.kind = "inline"
    /\ \E size \in 1..MaxSize : Ends("log", Smaller(size, fetch.limit))
    /\ Fine

(* Providers whose events have to bring their log along. *)
Missing == Pending /\ fetch.kind = "none" /\ Ends("error", 0) /\ Fine

(* Text, or JSON whose content is cut to the limit again; Buildkite's, which
   is wrapped, is not. *)
Whole ==
    /\ Pending /\ fetch.kind \in {"whole", "wrapped"}
    /\ \/ Fine /\ \E size \in 0..MaxSize : \E content \in Decodings(size, fetch.limit) :
             fetch' = [fetch EXCEPT !.outcome = "log", !.asked = {fetch.limit},
                                    !.got = IF fetch.kind = "wrapped" THEN content ELSE Smaller(content, fetch.limit)]
       \/ Fault /\ Ends("error", 0)

(* A list of pieces that cannot be had ends the fetch. *)
List ==
    /\ Pending /\ fetch.kind = "list"
    /\ \/ Fine /\ \E n \in 0..MaxPieces : fetch' = [fetch EXCEPT !.kind = "pieces", !.pieces = n]
       \/ Fault /\ Ends("error", 0)

(* Mutant: one more piece is fetched when the limit is reached exactly. *)
Full_Late(got) == got > fetch.limit

Full(got) == got >= fetch.limit

(* A piece is followed by a line break; one that cannot be had is left out. *)
Piece ==
    /\ Pending /\ fetch.kind = "pieces" /\ fetch.pieces > 0
    /\ LET rest == fetch.limit - fetch.got IN
       \/ /\ Fine
          /\ \E size \in 0..MaxSize, break \in 0..1 : \E content \in Decodings(size, rest) :
             LET got == fetch.got + content + break IN
             fetch' = [fetch EXCEPT !.pieces = fetch.pieces - 1, !.asked = fetch.asked \cup {rest},
                                    !.got = IF Full(got) THEN fetch.limit ELSE got,
                                    !.outcome = IF Full(got) THEN "log" ELSE "pending"]
       \/ Fault /\ fetch' = [fetch EXCEPT !.pieces = fetch.pieces - 1]

LastPiece ==
    /\ Pending /\ fetch.kind = "pieces" /\ fetch.pieces = 0
    /\ Fine /\ Ends(IF fetch.got = 0 THEN "error" ELSE "log", fetch.got)

LogStep == Inline \/ Missing \/ Whole \/ List \/ Piece \/ LastPiece

-----------------------------------------------------------------------------

(* A log is never longer than the limit, but for the decoded ones of Buildkite
   that may be three times as long, and no request is ever sent with nothing
   left to ask for, which the request would take for no limit. *)
LogBounded ==
    /\ fetch.got <= IF fetch.kind = "wrapped" THEN 3 * fetch.limit ELSE fetch.limit
    /\ \A a \in fetch.asked : a > 0
=============================================================================
