----------------------------- MODULE SqlReader -----------------------------
(***************************************************************************)
(* How a SQL parser reads the text that DeparseText writes: the reference  *)
(* for what the text means.                                                *)
(*                                                                         *)
(* It reads the words one after the other and accepts strictly less than   *)
(* SQL does: no text in which an operator would take its operands by       *)
(* precedence.  What it accepts has one reading, therefore.  The one rule  *)
(* of precedence it has is that a sign belongs to the number it touches.   *)
(***************************************************************************)
EXTENDS DeparseText

(* Where the reader is: the list of conditions it has read, or inside a    *)
(* parenthesis that was opened at an outer place.                          *)
Listed(es) == [frame |-> "listed", read |-> es]
Opened(p) == [frame |-> "opened", outer |-> p]
Operand(e, p) == [frame |-> "operand", tree |-> e, outer |-> p]
Sign(p) == [frame |-> "sign", outer |-> p]
Infix(op, e, p) == [frame |-> "infix", op |-> op, tree |-> e, outer |-> p]
Operation(e, p) == [frame |-> "operation", tree |-> e, outer |-> p]

(* What it has just read there; in a string, also the string so far.       *)
Reading(mode, p, s) == [mode |-> mode, place |-> p, chars |-> s]
At(mode, p) == Reading(mode, p, <<>>)
Start == At("before operand", Listed(<<>>))
Wrong == At("wrong", Listed(<<>>))

(* An operand was read at p.                                               *)
Taken(p, e) ==
    CASE p.frame = "listed" -> Listed(Append(p.read, e))
      [] p.frame = "opened" -> Operand(e, p.outer)
      [] p.frame = "sign" -> Operation(Unary(e), p.outer)
      [] p.frame = "infix" -> Operation(Binary(p.op, p.tree, e), p.outer)

Take(p, e) == At("after operand", Taken(p, e))

BeforeOperand(p, w) ==
    CASE w = "(" -> At("before operand", Opened(p))
      [] w = "c" -> Take(p, Column)
      [] w = "NULL" -> Take(p, Null)
      [] w = "1" -> Take(p, Number(1))
      [] w = "-" -> At("after sign", p)
      [] w = "q" -> At("in string", p)
      [] OTHER -> Wrong

(* A second sign would begin a comment.                                    *)
AfterSign(p, w) ==
    CASE w = "1" -> Take(p, Unary(Number(1)))
      [] w = " " /\ p.frame = "opened" -> At("before operand", Sign(p.outer))
      [] OTHER -> Wrong

AfterOperand(p, w) ==
    CASE w = " " /\ p.frame \in {"listed", "operand"} -> At("before operator", p)
      [] w = ")" /\ p.frame \in {"operand", "operation"} -> Take(p.outer, p.tree)
      [] OTHER -> Wrong

BeforeOperator(p, w) ==
    CASE w = "AND" /\ p.frame = "listed" -> At("after operator", p)
      [] w \notin Reserved /\ p.frame = "operand" ->
           At("after operator", Infix(w, p.tree, p.outer))
      [] OTHER -> Wrong

(* Two quotes in a string are one; a single one ends it.                   *)
InString(r, w) ==
    IF w = "q" THEN [r EXCEPT !.mode = "after quote"]
    ELSE [r EXCEPT !.chars = Append(r.chars, w)]

AfterQuote(r, w) ==
    IF w = "q" THEN Reading("in string", r.place, Append(r.chars, w))
    ELSE AfterOperand(Taken(r.place, String(r.chars)), w)

Step(r, w) ==
    CASE r.mode = "before operand" -> BeforeOperand(r.place, w)
      [] r.mode = "after sign" -> AfterSign(r.place, w)
      [] r.mode = "after operand" -> AfterOperand(r.place, w)
      [] r.mode = "before operator" -> BeforeOperator(r.place, w)
      [] r.mode = "after operator" -> IF w = " " THEN At("before operand", r.place)
                                      ELSE Wrong
      [] r.mode = "in string" -> InString(r, w)
      [] r.mode = "after quote" -> AfterQuote(r, w)
      [] OTHER -> Wrong

(* Where the reader is after the whole text.                               *)
After(t) ==
    LET run[i \in 0 .. Len(t)] == IF i = 0 THEN Start ELSE Step(run[i - 1], t[i])
    IN run[Len(t)]

-----------------------------------------------------------------------------
(* What Tibero takes a tree for: an empty string is NULL, a negative       *)
(* number a sign and a number.                                             *)
CONSTANT meaning

ASSUME Meanings ==
    \A e \in Trees :
      meaning[e] = CASE e.node = "unary" -> Unary(meaning[e.arg])
                     [] e.node = "binary" ->
                          Binary(e.op, meaning[e.left], meaning[e.right])
                     [] e = String(<<>>) -> Null
                     [] e = Number(-1) -> Unary(Number(1))
                     [] OTHER -> e

(* The reader once it has read a list of conditions and nothing else.      *)
HasRead(exprs) ==
    IF exprs = <<>> THEN Start
    ELSE At("after operand", Listed([i \in DOMAIN exprs |-> meaning[exprs[i]]]))

-----------------------------------------------------------------------------
(* Properties.                                                             *)

(* The finished text is read as the conditions that were given, although   *)
(* it is put together without a look at what stands next to what: no two   *)
(* minus signs meet, no quote ends a string early, no operator takes the   *)
(* operand of another.  Only an empty string is read as something else:    *)
(* NULL, which nothing equals.                                             *)
TextReadsBack ==
    /\ ParenthesesClose
    /\ where # <<>> /\ todo = <<>> => After(text) = HasRead(where)
=============================================================================
