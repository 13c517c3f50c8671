--------------------------- MODULE Configuration ---------------------------
(***************************************************************************)
(* What macdetectd makes of its command line (utils/src/ArgumentParser.cpp)*)
(* and of a configuration file (utils/src/Config.cpp, and                  *)
(* Daemon::parseConfigFile()).                                             *)
(*                                                                         *)
(* A file is a sequence of lines and a line one of symbols: the characters *)
(* the parser looks for, each on its own, and the words between them.  An  *)
(* artifact of the command line is a pair: the number of its dashes, and   *)
(* what follows them.                                                      *)
(***************************************************************************)
EXTENDS Naturals, Sequences, FiniteSets, SequencesExt, FiniteSetsExt, TLC

Blank == " "
Quotes == {"'", "\""}
Numerals == <<"0", "1", "2", "3", "4", "5", "6", "7", "8", "9">>

-----------------------------------------------------------------------------
(* Strings.                                                                *)

Positions(s, c) == {i \in DOMAIN s : s[i] = c}

\* find_last_not_of() and find_first_not_of() of blanks, then erase() and substr().
TrimEnd(s) == SubSeq(s, 1, Max({0} \cup {i \in DOMAIN s : s[i] # Blank}))

TrimStart(s) == SubSeq(s, Min({Len(s) + 1} \cup {i \in DOMAIN s : s[i] # Blank}), Len(s))

\* What symbol c makes of cStringDelimiter, "" for '\0'.
NextDelimiter(c) ==
    [d \in Quotes \cup {""} |->
        CASE c \in Quotes /\ d = "" -> c
          [] c \in Quotes /\ d = c  -> ""
          [] OTHER -> d]

\* cStringDelimiter after each number of symbols.
Delimiter(s) ==
    LET after[i \in 0..Len(s)] == IF i = 0 THEN "" ELSE NextDelimiter(s[i])[after[i - 1]]
    IN  after

\* The places of symbol c outside quotes.
Unquoted(s, c) == {i \in Positions(s, c) : Delimiter(s)[i] = ""}

-----------------------------------------------------------------------------
(* Config.                                                                 *)

filterLine(s) ==
    LET hashes == Unquoted(s, "#")
    IN  TrimEnd(IF hashes = {} THEN s ELSE SubSeq(s, 1, Min(hashes) - 1))

filterLines(lines) ==
    SelectSeq([i \in DOMAIN lines |-> filterLine(TrimEnd(lines[i]))], LAMBDA s : s # <<>>)

\* Section and term of each line with their value; a later line replaces an earlier
\* one.  Without a '=' the line is its own value.
parseLines(lines) ==
    LET Heading(s) == s[1] = "[" /\ Last(s) = "]"
        Add(st, s) ==
            IF Heading(s)
            THEN [st EXCEPT !.section = SubSeq(s, 2, Len(s) - 1)]
            ELSE LET at == Min({Len(s) + 1} \cup Positions(s, "="))
                     term == SubSeq(s, 1, at - 1)
                     val == SubSeq(s, IF at > Len(s) THEN 1 ELSE at + 1, Len(s))
                 IN  [st EXCEPT !.map = (<<st.section, term>> :> val) @@ @]
    IN  FoldLeft(Add, [section |-> <<"global">>, map |-> <<>>], lines).map

loadFromFile(file) == parseLines(filterLines(file))

InQuotes(s, quotes) == s # <<>> /\ s[1] \in quotes /\ Last(s) = s[1]

unquote(s, quotes) == IF InQuotes(s, quotes) THEN SubSeq(s, 2, Len(s) - 1) ELSE s

raw(map, section, term, default) ==
    IF <<section, term>> \in DOMAIN map THEN map[section, term] ELSE default

value(map, section, term, default) == unquote(raw(map, section, term, default), {"\""})

\* The items of a list, and whether the call throws std::out_of_range, which it does
\* for an item of blanks only and so for a term that is not there.
list(map, section, term) ==
    LET s == raw(map, section, term, <<>>)
        cuts == SetToSortSeq(Unquoted(s, ",") \cup {0, Len(s) + 1}, <)
        portions == [i \in 1..Len(cuts) - 1 |->
                        TrimStart(TrimEnd(SubSeq(s, cuts[i] + 1, cuts[i + 1] - 1)))]
    IN  [throws |-> \E i \in DOMAIN portions : portions[i] = <<>>,
         items  |-> [i \in DOMAIN portions |-> unquote(portions[i], Quotes)]]

\* sscanf() skips leading blanks and reads a number if there is one.
IsNumber(s) == TrimStart(s) # <<>> /\ TrimStart(s)[1] \in Range(Numerals)

Number(s) == (CHOOSE i \in DOMAIN Numerals : Numerals[i] = TrimStart(s)[1]) - 1

doubleValue(map, section, term, default) ==
    LET s == value(map, section, term, <<>>)
    IN  IF s = <<>> THEN default ELSE IF IsNumber(s) THEN Number(s) ELSE 0

-----------------------------------------------------------------------------
(* ArgumentParser, with the prototypes of main(): "-d" or "--daemon" is a  *)
(* switch, "-c" or "--config-file" a token that takes the next artifact.   *)

IsSwitch(a) == a \in {<<1, "d">>, <<2, "daemon">>}
IsToken(a)  == a \in {<<1, "c">>, <<2, "config-file">>}

Argument(type, v) == [type |-> type, value |-> v]

\* Fault: the artifact a token has taken is looked at again.
parseArtifactAgain(arts, i) ==
    [next |-> i + 1,
     add  |-> CASE IsSwitch(arts[i]) -> <<Argument("Switch", <<>>)>>
                [] IsToken(arts[i]) /\ i < Len(arts) -> <<Argument("Token", arts[i + 1])>>
                [] arts[i][1] = 0 -> <<Argument("Parameter", arts[i])>>
                [] OTHER -> <<>>]

\* The arguments of artifact i, and how many artifacts they take.  A token in the last
\* place and an option nobody knows are passed over.
parseArtifact(arts, i) ==
    CASE IsSwitch(arts[i]) -> [add |-> <<Argument("Switch", <<>>)>>, next |-> i + 1]
      [] IsToken(arts[i]) /\ i < Len(arts) ->
            [add |-> <<Argument("Token", arts[i + 1])>>, next |-> i + 2]
      [] arts[i][1] = 0 -> [add |-> <<Argument("Parameter", arts[i])>>, next |-> i + 1]
      [] OTHER -> [add |-> <<>>, next |-> i + 1]

\* The arguments of a type, by their places.  There is one prototype of each, so that
\* keyFitsArgument() tells no more.
OfType(args, type) == {i \in DOMAIN args : args[i].type = type}

switched(args) == OfType(args, "Switch") # {}

\* value("config-file"): the first one counts.
tokenValue(args) ==
    IF OfType(args, "Token") = {} THEN <<0, "">> ELSE args[Min(OfType(args, "Token"))].value

\* The loop over the arguments, and what it has pushed after each.
parameters(args) ==
    LET after[i \in 0..Len(args)] ==
            IF i = 0 THEN <<>>
            ELSE IF i \in OfType(args, "Parameter") THEN Append(after[i - 1], args[i].value)
            ELSE after[i - 1]
    IN  after[Len(args)]
=============================================================================
