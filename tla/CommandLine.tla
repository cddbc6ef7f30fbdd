---------------------------- MODULE CommandLine -----------------------------
(***************************************************************************)
(* How the Windows backend writes a list of arguments as one command line, *)
(* and how the C runtime of the child takes it apart again.  A text is a   *)
(* sequence of characters: a letter, a blank (space or tab), a quote, a    *)
(* backslash, and one that is not ASCII, which takes several bytes.        *)
(***************************************************************************)
EXTENDS Integers, Sequences, SequencesExt

Space     == " "
Quote     == "\""
Backslash == "\\"
Wide      == "wide"
Char      == {"x", Space, Quote, Backslash, Wide}

(* std::wstring(a.begin(), a.end()): each byte becomes a character of its  *)
(* own, so that what is not ASCII turns into something else.               *)
Garbled    == "garbled"
Widen(arg) == [i \in DOMAIN arg |-> IF arg[i] = Wide THEN Garbled ELSE arg[i]]

(* An argument is put in quotes if it is empty, or has a blank or a quote. *)
NeedsQuote(arg) == arg = <<>> \/ \E i \in DOMAIN arg : arg[i] \in {Space, Quote}

(* Each quote in it gets a backslash; backslashes stay as they are. *)
AddChar(text, c) == text \o (IF c = Quote THEN <<Backslash, Quote>> ELSE <<c>>)
Escape(arg)      == FoldLeft(AddChar, <<>>, arg)

Quoted(arg) == LET wa == Widen(arg)
               IN IF NeedsQuote(wa) THEN <<Quote>> \o Escape(wa) \o <<Quote>> ELSE wa

(* build_command_line(): the program always in quotes, then the arguments. *)
AddArg(line, arg) == line \o <<Space>> \o Quoted(arg)

BuildCommandLine(program, args) ==
    FoldLeft(AddArg, <<Quote>> \o program \o <<Quote>>, args)

-----------------------------------------------------------------------------
(* The child's side (the runtime's rules, not code of the library) *)

Slashes(n) == [i \in 1..n |-> Backslash]

EndArg(st) ==
    IF st.inArg
    THEN [st EXCEPT !.args = Append(@, st.cur \o Slashes(st.slashes)),
                    !.cur = <<>>, !.slashes = 0, !.inArg = FALSE]
    ELSE st

(* Backslashes count only before a quote: an even number opens or closes   *)
(* a quoted part, an odd one stands for a quote.  A quote right behind the *)
(* one that closed a quoted part stands for itself and opens it again.     *)
ParseChar(st, c) ==
    LET now == [st EXCEPT !.closed = FALSE] IN
    CASE c = Backslash -> [now EXCEPT !.slashes = @ + 1, !.inArg = TRUE]
      [] c = Quote /\ st.closed -> [now EXCEPT !.cur = @ \o <<Quote>>, !.quoted = TRUE]
      [] c = Quote /\ ~st.closed /\ st.slashes % 2 = 1 ->
           [now EXCEPT !.cur = @ \o Slashes(st.slashes \div 2) \o <<Quote>>, !.slashes = 0]
      [] c = Quote /\ ~st.closed /\ st.slashes % 2 = 0 ->
           [now EXCEPT !.cur = @ \o Slashes(st.slashes \div 2), !.slashes = 0,
                       !.quoted = ~@, !.closed = st.quoted, !.inArg = TRUE]
      [] c = Space /\ ~st.quoted -> EndArg(now)
      [] OTHER ->
           [now EXCEPT !.cur = @ \o Slashes(st.slashes) \o <<c>>, !.slashes = 0, !.inArg = TRUE]

NoArg == [args |-> <<>>, cur |-> <<>>, slashes |-> 0, quoted |-> FALSE, closed |-> FALSE,
          inArg |-> FALSE]

ParseCommandLine(line) == EndArg(FoldLeft(ParseChar, NoArg, line)).args

(* A backslash that ends up before a quote is taken for an escape. *)
Ambiguous(arg) ==
    /\ NeedsQuote(arg)
    /\ \E i \in DOMAIN arg :
         arg[i] = Backslash /\ (i = Len(arg) \/ arg[i + 1] = Quote)

(* The arguments that may not arrive as they were given. *)
AtRisk(arg) == Ambiguous(arg) \/ \E i \in DOMAIN arg : arg[i] = Wide
=============================================================================
