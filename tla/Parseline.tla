----------------------------- MODULE Parseline -----------------------------
(* parseline of tsh_helper.c, which cuts a command line into words where    *)
(* it lies: a token is a position in the line, and ends at a NUL that is    *)
(* written over its delimiter. Positions start at 1; 0 is NULL.             *)
EXTENDS Integers, Sequences, FiniteSetsExt, SequencesExt

CONSTANTS Words,      \* <<quoted, characters>>: the words the lines are made of
          MaxItems, MAXARGS

VARIABLES items, gap,   \* what the line is written from, and with how many blanks
          text, buf, argv, infile, outfile, parsing_state,
          result        \* "running", or what parseline returns
parseVars == <<items, gap, text, buf, argv, infile, outfile, parsing_state, result>>

NUL == "NUL"
Delims == {" "}
Quotes == {"'"}

(* A line: words, and files after < and >.                                  *)
Items == [kind : {"word", "in", "out"}, quoted : BOOLEAN, word : {w[2] : w \in Words}]
Written(item, blank) ==
  (CASE item.kind = "in" -> <<"<">> \o blank [] item.kind = "out" -> <<">">> \o blank [] OTHER -> blank)
    \o (IF item.quoted THEN <<"'">> \o item.word \o <<"'">> ELSE item.word) \o <<" ">>
ParseInit ==
  /\ items \in {s \in BoundedSeq(Items, MaxItems) : \A i \in DOMAIN s : <<s[i].quoted, s[i].word>> \in Words}
  /\ gap \in {<<>>, <<" ">>}
  /\ text = FlattenSeq([i \in DOMAIN items |-> Written(items[i], gap)]) \o <<NUL>>
  /\ buf = 1 /\ argv = <<>> /\ infile = 0 /\ outfile = 0
  /\ parsing_state = "ST_NORMAL" /\ result = "running"

-----------------------------------------------------------------------------
endbuf == Len(text)
Least(S) == IF S = {} THEN 0 ELSE Min(S)
(* strspn: the next character that is no delimiter, in what is still to be  *)
(* read; strcspn and strchr: where the token that starts there ends.        *)
Start == Least({i \in buf..(endbuf - 1) : text[i] \notin Delims})
Quoted == text[Start] \in Quotes
Token  == IF Quoted THEN Start + 1 ELSE Start
Ending == Least({i \in Token..(endbuf - 1) : text[i] = text[Start]})
Next_  == IF Quoted THEN Ending ELSE Least({i \in Token..endbuf : text[i] \in Delims \cup {NUL}})

Full    == Len(argv) >= MAXARGS - 1
Reading == result = "running" /\ ~Full /\ Start # 0
Fail    == result' = "PARSELINE_ERROR" /\ UNCHANGED <<text, buf, argv, infile, outfile, parsing_state>>
(* A second file is refused, though not a second < before any file.         *)
Redirect(char, file, state) ==
  /\ Reading /\ text[Start] = char
  /\ IF file # 0 THEN Fail
     ELSE /\ parsing_state' = state /\ buf' = Start + 1
          /\ UNCHANGED <<text, argv, infile, outfile, result>>
Unmatched == Reading /\ Quoted /\ Next_ = 0 /\ Fail
Record_open ==   \* mutant: the token is not terminated
  /\ Reading /\ text[Start] \notin {"<", ">"} /\ Next_ # 0
  /\ UNCHANGED text
  /\ argv'    = IF parsing_state = "ST_NORMAL" THEN Append(argv, Token) ELSE argv
  /\ infile'  = IF parsing_state = "ST_INFILE" THEN Token ELSE infile
  /\ outfile' = IF parsing_state = "ST_OUTFILE" THEN Token ELSE outfile
  /\ parsing_state' = "ST_NORMAL" /\ buf' = Next_ + 1
  /\ UNCHANGED result
Record ==
  /\ Reading /\ text[Start] \notin {"<", ">"} /\ Next_ # 0
  /\ text' = [text EXCEPT ![Next_] = NUL]
  /\ argv'    = IF parsing_state = "ST_NORMAL" THEN Append(argv, Token) ELSE argv
  /\ infile'  = IF parsing_state = "ST_INFILE" THEN Token ELSE infile
  /\ outfile' = IF parsing_state = "ST_OUTFILE" THEN Token ELSE outfile
  /\ parsing_state' = "ST_NORMAL" /\ buf' = Next_ + 1
  /\ UNCHANGED result
(* The last word says whether the job runs in the background, and goes.     *)
Finish ==
  /\ result = "running" /\ (Full \/ Start = 0)
  /\ LET background == argv # <<>> /\ text[Last(argv)] = "&" IN
     /\ result' = CASE parsing_state # "ST_NORMAL" -> "PARSELINE_ERROR"
                    [] argv = <<>> -> "PARSELINE_EMPTY"
                    [] background  -> "PARSELINE_BG"
                    [] OTHER       -> "PARSELINE_FG"
     /\ argv' = IF parsing_state = "ST_NORMAL" /\ background THEN Front(argv) ELSE argv
  /\ UNCHANGED <<text, buf, infile, outfile, parsing_state>>
ParseNext ==
  /\ Redirect("<", infile, "ST_INFILE") \/ Redirect(">", outfile, "ST_OUTFILE") \/ Unmatched \/ Record \/ Finish
  /\ UNCHANGED <<items, gap>>

-----------------------------------------------------------------------------
(* What a line of the documented form says: command [arguments...]          *)
(* [< infile] [> outfile] [&], the files anywhere; a word & asks for the    *)
(* background. Two files of a kind, or a quote that is left open at the     *)
(* end, make a line that is incorrectly formatted.                          *)
OfKind(kind) == SelectSeq(items, LAMBDA item : item.kind = kind)
WordsOf(s)   == [i \in DOMAIN s |-> s[i].word]
Ampersand(item) == item.kind = "word" /\ ~item.quoted /\ item.word = <<"&">>
Open(item)      == ~item.quoted /\ Head(item.word) \in Quotes

WellFormed ==
  /\ \A i \in 1..(Len(items) - 1) : ~Open(items[i]) /\ ~Ampersand(items[i])
  /\ items # <<>> => OfKind("word") # <<>> /\ ~Ampersand(OfKind("word")[1])
Incorrect == \/ Len(OfKind("in")) > 1 \/ Len(OfKind("out")) > 1
             \/ items # <<>> /\ Open(Last(items))
Background == items # <<>> /\ Ampersand(Last(items))

CString(p) == SubSeq(text, p, Min({i \in p..Len(text) : text[i] = NUL}) - 1)
File(p)    == IF p = 0 THEN <<>> ELSE <<CString(p)>>
ParsedAsWritten ==
  LET words == WordsOf(OfKind("word")) IN
  IF Incorrect THEN result = "PARSELINE_ERROR"
  ELSE /\ result = IF items = <<>> THEN "PARSELINE_EMPTY"
                   ELSE IF Background THEN "PARSELINE_BG" ELSE "PARSELINE_FG"
       /\ [i \in DOMAIN argv |-> CString(argv[i])] = IF Background THEN Front(words) ELSE words
       /\ File(infile) = WordsOf(OfKind("in")) /\ File(outfile) = WordsOf(OfKind("out"))

(* A line of that form is read as it was written, when all its tokens have  *)
(* been cut: every word and every file in its place and with its own        *)
(* characters, the background as asked for, an error where it is incorrect. *)
(* The words must leave argv a place free, or fill it with the last item:   *)
(* parseline stops reading at MAXARGS - 1 words.                            *)
Fits == LET count == Len(OfKind("word"))
        IN  count < MAXARGS - 1 \/ (count = MAXARGS - 1 /\ Last(items).kind = "word")
ReadsAsWritten == result # "running" /\ WellFormed /\ Fits => ParsedAsWritten

(* What tsh_helper.h:94 and :110 promise and a full argv does not keep:     *)
(* "The maximum number of arguments that will be parsed is MAXARGS", and    *)
(* PARSELINE_ERROR for a line that cannot be parsed.                        *)
ReadsEveryLine ==
  result # "running" /\ WellFormed => ParsedAsWritten \/ result = "PARSELINE_ERROR"
=============================================================================
