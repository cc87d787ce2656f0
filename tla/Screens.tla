------------------------------- MODULE Screens -------------------------------
(***************************************************************************)
(* What the screens of the web application have in common: a chart, a list *)
(* or a preview asks the server a question, a newer question gives the     *)
(* older one up, and the answer to the older one may still arrive.         *)
(***************************************************************************)
EXTENDS Naturals

CONSTANT Nothing \* null

\* A request of an effect: the question in force, what is shown, whether the
\* request runs, whether it failed, and a question given up whose answer is
\* still on its way.
Load(questions) ==
  [wants: questions \cup {Nothing}, shown: questions \cup {Nothing}, live: BOOLEAN,
   failed: BOOLEAN, late: questions \cup {Nothing}]
NoLoad == [wants |-> Nothing, shown |-> Nothing, live |-> FALSE, failed |-> FALSE,
           late |-> Nothing]

\* Another question aborts the request in flight. What was shown stays until
\* the answer comes, except where the screen asks for nothing any more.
AskFor(load, question) ==
  IF question = load.wants THEN load
  ELSE [wants |-> question, shown |-> IF question = Nothing THEN Nothing ELSE load.shown,
        live |-> question # Nothing, failed |-> FALSE,
        late |-> IF load.live THEN load.wants ELSE load.late]
Take(load) == [load EXCEPT !.live = FALSE, !.shown = load.wants]
Fail(load) == [load EXCEPT !.live = FALSE, !.failed = TRUE]
Drop(load) == [load EXCEPT !.late = Nothing]

\* Nothing is under way and nothing failed: what is shown answers the question.
Fits(load, question) ==
  /\ load.wants = question
  /\ ~load.live /\ ~load.failed => load.shown = question

=============================================================================
