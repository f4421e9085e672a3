---------------------------- MODULE DeparseText ----------------------------
(***************************************************************************)
(* The text deparse.c makes of the conditions of a statement: operators,   *)
(* constants, parentheses, and the conditions' conjunction.  What Tibero   *)
(* reads in it is in module SqlReader.                                     *)
(*                                                                         *)
(* Only nodes that pass the inspection (module Shippability) get here.     *)
(* A text is a sequence of characters and words; "q" is a single quote.    *)
(* The C functions call one another and append to the buffer; here what    *)
(* the calls that have not returned are still to append is a row of items. *)
(***************************************************************************)
EXTENDS Integers, Sequences

CONSTANTS
    Characters, \* of string constants
    Trees,      \* expression trees
    WhereLists  \* the lists of conditions tried

(* Expression trees.  Of a number only the sign is kept.                   *)
Column == [node |-> "column"]
Null == [node |-> "null"]
Number(i) == [node |-> "number", int |-> i]
String(s) == [node |-> "string", chars |-> s]
Unary(e) == [node |-> "unary", arg |-> e]
Binary(op, l, r) == [node |-> "binary", op |-> op, left |-> l, right |-> r]

(* No operator of PostgreSQL is called like a parenthesis, a quote, a      *)
(* blank, an operand or a conjunction (a BoolExpr, not an operator).       *)
Reserved == {"(", ")", "q", " ", "c", "NULL", "1", "AND"}

ASSUME TextConstants ==
    /\ WhereLists \subseteq Seq(Trees) \ {<<>>}
    /\ \A e \in Trees :
         \/ e \in {Column, Null, Number(1), Number(-1)}
         \/ e.node = "string" /\ e.chars \in Seq(Characters) /\ e = String(e.chars)
         \/ e.node = "unary" /\ e.arg \in Trees /\ e = Unary(e.arg)
         \/ /\ e.node = "binary" /\ e.left \in Trees /\ e.right \in Trees
            /\ e.op \notin Reserved /\ e = Binary(e.op, e.left, e.right)

VARIABLES
    where,   \* the conditions; <<>> before one is chosen
    todo,    \* the row of items that is left to write
    text,    \* the buffer
    pdepth   \* the parentheses that are open

textVars == <<where, todo, text, pdepth>>

Word(w) == [is |-> "word", word |-> w]
Parenthesis(w) == [is |-> "parenthesis", word |-> w]
Quoted(s) == [is |-> "quoted", chars |-> s]     \* the rest of a string
Tree(e) == [is |-> "tree", tree |-> e]
Conditions(i) == [is |-> "conditions", from |-> i]  \* the list from i on

TextTypeOK ==
    /\ \A i \in DOMAIN todo :
         todo[i].is \in {"word", "parenthesis", "quoted", "tree", "conditions"}
    /\ pdepth \in Nat

TextInit == where = <<>> /\ todo = <<>> /\ text = <<>> /\ pdepth = 0

(* The first item is left to write, and a row takes its place.             *)
First(kind) == todo # <<>> /\ Head(todo).is = kind
Instead(row) == todo' = row \o Tail(todo)

-----------------------------------------------------------------------------
(* append_conditions: the conditions in parentheses, joined by AND.        *)
DeparseWhere ==
    /\ where = <<>>
    /\ where' \in WhereLists
    /\ todo' = <<Conditions(1)>>
    /\ UNCHANGED <<text, pdepth>>

(* One turn of its loop.                                                   *)
Condition(i) ==
    (IF i = 1 THEN <<>> ELSE <<Word(" "), Word("AND"), Word(" ")>>)
    \o <<Parenthesis("("), Tree(where[i]), Parenthesis(")"), Conditions(i + 1)>>

AppendCondition ==
    /\ First("conditions")
    /\ LET i == Head(todo).from
       IN Instead(IF i \in DOMAIN where THEN Condition(i) ELSE <<>>)
    /\ UNCHANGED <<where, text, pdepth>>

(* deparse_string_literal: an empty string is NULL.                        *)
deparse_string_literal(s) ==
    IF s = <<>> THEN <<Word("NULL")>> ELSE <<Word("q"), Quoted(s)>>

(* One turn of its loop, in which a quote is doubled, and the quote behind *)
(* the last character.                                                     *)
\* Mutant: quotes are copied like any character.
Character_Plain(s) ==
    IF s = <<>> THEN <<Word("q")>> ELSE <<Word(Head(s)), Quoted(Tail(s))>>
Character(s) ==
    IF s = <<>> THEN <<Word("q")>>
    ELSE (IF Head(s) = "q" THEN <<Word("q")>> ELSE <<>>)
         \o <<Word(Head(s)), Quoted(Tail(s))>>

AppendCharacter ==
    /\ First("quoted")
    /\ Instead(Character(Head(todo).chars))
    /\ UNCHANGED <<where, text, pdepth>>

(* A column; deparse_datum for numbers and strings.                        *)
Leaf(e) ==
    CASE e.node = "column" -> <<Word("c")>>
      [] e.node = "null" -> <<Word("NULL")>>
      [] e.node = "number" ->
           IF e.int < 0 THEN <<Word("-"), Word("1")>> ELSE <<Word("1")>>
      [] e.node = "string" -> deparse_string_literal(e.chars)

(* deparse_expr_for_T_OpExpr: its operands are deparsed in their turn.     *)
\* Mutant: no blank after the operator.
Operator_Tight(e) ==
    <<Parenthesis("(")>>
    \o (IF e.node = "binary" THEN <<Tree(e.left), Word(" "), Word(e.op)>>
        ELSE <<Word("-")>>)
    \o <<Tree(IF e.node = "binary" THEN e.right ELSE e.arg), Parenthesis(")")>>
Operator(e) ==
    <<Parenthesis("(")>>
    \o (IF e.node = "binary" THEN <<Tree(e.left), Word(" "), Word(e.op)>>
        ELSE <<Word("-")>>)
    \o <<Word(" "), Tree(IF e.node = "binary" THEN e.right ELSE e.arg),
         Parenthesis(")")>>

DeparseExpr ==
    /\ First("tree")
    /\ LET e == Head(todo).tree
       IN Instead(IF e.node \in {"unary", "binary"} THEN Operator(e) ELSE Leaf(e))
    /\ UNCHANGED <<where, text, pdepth>>

AppendWord ==
    /\ First("word")
    /\ text' = Append(text, Head(todo).word)
    /\ todo' = Tail(todo)
    /\ UNCHANGED <<where, pdepth>>

(* remote_sql_open_parenthesis and remote_sql_close_parenthesis.           *)
\* Mutant: opening parentheses are not counted.
Depth_Close(w) == IF w = ")" THEN -1 ELSE 0
Depth(w) == IF w = "(" THEN 1 ELSE -1

AppendParenthesis ==
    /\ First("parenthesis")
    /\ text' = Append(text, Head(todo).word)
    /\ todo' = Tail(todo)
    /\ pdepth' = pdepth + Depth(Head(todo).word)
    /\ UNCHANGED where

TextNext ==
    DeparseWhere \/ AppendCondition \/ DeparseExpr \/ AppendCharacter
    \/ AppendWord \/ AppendParenthesis

TextSpec == TextInit /\ [][TextNext]_textVars

-----------------------------------------------------------------------------
(* No parenthesis stays open in a finished text, as                        *)
(* remote_sql_check_sanity demands.                                        *)
ParenthesesClose == where # <<>> /\ todo = <<>> => pdepth = 0
=============================================================================
