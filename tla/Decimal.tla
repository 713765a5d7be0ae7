------------------------------ MODULE Decimal -------------------------------
(***************************************************************************)
(* The parsers of decimal numbers, which must not overflow while they read *)
(* a number that is too large: task arguments (parse_number in             *)
(* src/src/worker/task.c), retry counts and job ids (src/src/cli/main.c),  *)
(* durations and ports (src/src/common/net.c).                             *)
(***************************************************************************)
EXTENDS Integers

CONSTANTS
  Parsers,              \* records of check, limit and zero (is 0 accepted?)
  WIDTH,                \* values of the 32 bits a port is read into
  LENGTH                \* the longest text (bound)

\* limit is at least 9 (INT_MAX, UINT32_MAX, UINT64_MAX) where digits are
\* subtracted from it; UINT16_MAX, once more times ten, fits in 32 bits.
ASSUME DecimalConstants ==
  /\ WIDTH \in Nat /\ LENGTH \in Nat
  /\ \A p \in Parsers :
       /\ p \in [check : {"split", "subtract", "after"}, limit : Nat, zero : BOOLEAN]
       /\ p.check = "subtract" => p.limit >= 9
       /\ p.check = "after" => 10 * p.limit + 9 < WIDTH

VARIABLES
  parser, value, verdict,
  length, exact, strange        \* of the text so far: its length, the number
                                \* it denotes, whether it has a non-digit

decimalVars == <<parser, value, verdict, length, exact, strange>>

-----------------------------------------------------------------------------
\* Mutant of SplitRejects: the last digit is not looked at.
SplitRejectsTens(limit, v, digit) == v > limit \div 10

\* parse_number
SplitRejects(limit, v, digit) ==
  v > limit \div 10 \/ (v = limit \div 10 /\ digit > limit % 10)

\* faultline_parse_duration_ms, parse_retries, parse_job_id
SubtractRejects(limit, v, digit) == v > (limit - digit) \div 10

\* faultline_parse_port tests after the step, made in a wider type.
AfterRejects(limit, v, digit) == (v * 10 + digit) % WIDTH > limit

Rejects(p, v, digit) ==
  CASE p.check = "split"    -> SplitRejects(p.limit, v, digit)
    [] p.check = "subtract" -> SubtractRejects(p.limit, v, digit)
    [] p.check = "after"    -> AfterRejects(p.limit, v, digit)

Digit(digit) ==
  /\ verdict = "reading" /\ length < LENGTH
  /\ length' = length + 1 /\ exact' = exact * 10 + digit
  /\ IF Rejects(parser, value, digit) THEN verdict' = "rejected" /\ UNCHANGED value
     ELSE value' = value * 10 + digit /\ UNCHANGED verdict
  /\ UNCHANGED <<parser, strange>>

OtherCharacter ==
  /\ verdict = "reading" /\ length < LENGTH
  /\ length' = length + 1 /\ strange' = TRUE /\ verdict' = "rejected"
  /\ UNCHANGED <<parser, value, exact>>

EndOfText ==
  /\ verdict = "reading"
  /\ verdict' = IF length = 0 \/ (value = 0 /\ ~parser.zero) THEN "rejected" ELSE "accepted"
  /\ UNCHANGED <<parser, value, length, exact, strange>>

DecimalInit ==
  /\ parser \in Parsers /\ value = 0 /\ verdict = "reading"
  /\ length = 0 /\ exact = 0 /\ strange = FALSE

DecimalNext == OtherCharacter \/ EndOfText \/ \E digit \in 0..9 : Digit(digit)

DecimalSpec == DecimalInit /\ [][DecimalNext]_decimalVars

-----------------------------------------------------------------------------
\* A parser accepts the numbers up to its limit and gives back the number, and
\* rejects everything else; it never multiplies into an overflow.
ParsersExact ==
  /\ value <= parser.limit
  /\ verdict = "accepted" =>
       ~strange /\ length > 0 /\ value = exact /\ (exact = 0 => parser.zero)
  /\ verdict = "rejected" =>
       \/ strange \/ length = 0 \/ exact > parser.limit
       \/ exact = 0 /\ ~parser.zero
=============================================================================
