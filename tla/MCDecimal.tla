----------------------------- MODULE MCDecimal ------------------------------
EXTENDS Decimal

\* Limits at which the last digit decides, and 9, 10 and 99, the ends of a
\* number of digits.
Limits == {9, 10, 27, 30, 99, 100, 127, 255}

MCParsers ==
  [check : {"split", "subtract", "after"}, limit : Limits, zero : BOOLEAN]
  \cup [check : {"split"}, limit : {0, 5}, zero : {TRUE}]
=============================================================================
