------------------------------- MODULE Commands -------------------------------
(***************************************************************************)
(* How a command line becomes the name of an action and its parameters.  A  *)
(* line is a sequence of characters, of which only the blank differs from   *)
(* the others; words are what is between blanks.                            *)
(***************************************************************************)
EXTENDS Integers, SequencesExt

Blank == " "

(* strtok_r: where the next word begins and what follows its last character *)
SkipBlanks(line) ==
  LET words == {i \in DOMAIN line : line[i] # Blank}
  IN IF words = {} THEN <<>> ELSE SubSeq(line, Min(words), Len(line))

FirstWord(line) ==
  LET blanks == {i \in DOMAIN line : line[i] = Blank}
  IN IF blanks = {} THEN line ELSE SubSeq(line, 1, Min(blanks) - 1)

(* The loop of getCommandParameter: `parameterNo` words are dropped, the    *)
(* blank behind each of them with it                                        *)
RECURSIVE getCommandParameter(_, _)
getCommandParameter(command, parameterNo) ==
  LET rest == SkipBlanks(command)
      word == FirstWord(rest)
  IN IF parameterNo = 0 \/ word = <<>> THEN word
     ELSE getCommandParameter(SubSeq(rest, Len(word) + 2, Len(rest)), parameterNo - 1)

getCommandName(command) == getCommandParameter(command, 0)

(* ActionRegistry::execute takes the first action whose name is the command *)
(* or begins it and is followed by a blank; 0 when there is none            *)
ActionFor(names, command) ==
  Min({i \in DOMAIN names : command = names[i] \/ IsPrefix(names[i] \o <<Blank>>, command)}
      \cup {Len(names) + 1}) % (Len(names) + 1)

(* What both are held against: the maximal runs of characters that are not  *)
(* blank, in their order                                                    *)
Lines(letters, length) == SeqOf(letters \cup {Blank}, length)

WordsOf(line) ==
  LET Inside(i) == i \in DOMAIN line /\ line[i] # Blank
      firsts == {i \in DOMAIN line : Inside(i) /\ ~ Inside(i - 1)}
      EndOf(i) == Min({j \in DOMAIN line : j >= i /\ ~ Inside(j + 1)})
  IN [k \in 1 .. Cardinality(firsts) |->
        LET i == CHOOSE f \in firsts : Cardinality({g \in firsts : g <= f}) = k
        IN SubSeq(line, i, EndOf(i))]

(* The parameters of a command are its words, and none beyond the last      *)
ParametersAreWords(letters, length) ==
  \A line \in Lines(letters, length) : \A n \in 0 .. length :
     getCommandParameter(line, n) =
       IF n + 1 \in DOMAIN WordsOf(line) THEN WordsOf(line)[n + 1] ELSE <<>>

(* An action gets the commands that begin with its name as a word, though   *)
(* other names begin like it or are the beginning of it                     *)
CommandsReachTheirAction(names, letters, length) ==
  \A line \in Lines(letters, length) : \A i \in DOMAIN names :
     ActionFor(names, line) = i <=>
       line # <<>> /\ line[1] # Blank /\ getCommandName(line) = names[i]
=============================================================================
