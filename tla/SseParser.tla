------------------------------ MODULE SseParser -------------------------------
(***************************************************************************)
(* How the streaming task turns the bytes of the upstream into server-sent *)
(* events (upstream.rs).  The upstream sends events; the network hands     *)
(* their bytes over in chunks cut anywhere; each chunk goes through        *)
(* parse_chat_sse_bytes, which keeps an unfinished character and an        *)
(* unfinished block for the next one.                                      *)
(*                                                                         *)
(* A byte sequence is a sequence of tokens: "data:", "event:", "comment",  *)
(* "sp", "CR", "LF", letters and names, "c1" and "c2" (the two bytes of a  *)
(* character), "bad" (a byte that is never UTF-8).  What the task does     *)
(* with an event is in StreamAssembler.                                    *)
(***************************************************************************)
EXTENDS Naturals, Sequences, SequencesExt, FiniteSetsExt

CONSTANTS
  Events,     \* what the upstream may send: records, see Render
  MaxEvents   \* events per stream: a bound

VARIABLES
  sent,           \* the events sent so far
  received,       \* how many of their bytes were received
  buffer,         \* the text that is not yet a block
  utf8Remainder,  \* the bytes that are not yet text
  parsed          \* the events the task has seen

sseVars == <<sent, received, buffer, utf8Remainder, parsed>>

Absent == "absent"

(* The bytes of an event: padding, its name, a comment, its data lines and *)
(* the blank line, all with the same line end.  The upstream's side.       *)
Render(e) ==
  e.before
    \o (IF e.name = Absent THEN <<>> ELSE <<"event:", "sp", e.name>> \o e.newline)
    \o (IF e.comment THEN <<"comment">> \o e.newline ELSE <<>>)
    \o FlattenSeq([i \in DOMAIN e.data |-> <<"data:", "sp">> \o e.data[i] \o e.newline])
    \o e.newline

Bytes(es) == FlattenSeq([i \in DOMAIN es |-> Render(es[i])])

-------------------------------------------------------------------------------
(* Characters.                                                             *)

IsUtf8(s) ==
  \A i \in DOMAIN s :
    /\ s[i] # "bad"
    /\ s[i] = "c1" => i < Len(s) /\ s[i + 1] = "c2"
    /\ s[i] = "c2" => i > 1 /\ s[i - 1] = "c1"

ValidUpTo(s) == Max({n \in 0..Len(s) : IsUtf8(SubSeq(s, 1, n))})

(* Blocks.                                                                 *)

Delimiters == {<<"CR", "LF", "CR", "LF">>, <<"LF", "LF">>}

(* Every place of a delimiter in a text.                                   *)
DelimitersIn(text) ==
  LET places(d) == {p \in 1..(1 + Len(text) - Len(d)) : SubSeq(text, p, p + Len(d) - 1) = d}
  IN UNION {[pos : places(d), len : {Len(d)}] : d \in Delimiters}

(* Mutant: "\r\n\r\n" is looked for first, wherever "\n\n" is.             *)
NextSseBlockDelimiterCrFirst(text) ==
  CHOOSE d \in DelimitersIn(text) :
    \A o \in DelimitersIn(text) : d.len > o.len \/ (d.len = o.len /\ d.pos <= o.pos)

NextSseBlockDelimiter(text) ==
  CHOOSE d \in DelimitersIn(text) : \A o \in DelimitersIn(text) : d.pos <= o.pos

RECURSIVE SplitBlocks(_)
SplitBlocks(text) ==
  IF DelimitersIn(text) = {}
  THEN [blocks |-> <<>>, rest |-> text]
  ELSE LET d == NextSseBlockDelimiter(text)
           tail == SplitBlocks(SubSeq(text, d.pos + d.len, Len(text)))
       IN [blocks |-> <<SubSeq(text, 1, d.pos - 1)>> \o tail.blocks, rest |-> tail.rest]

-------------------------------------------------------------------------------
(* Lines and fields of a block.                                            *)

(* str::lines: a line ends with LF or CR LF; the last one may end bare.    *)
Lines(block) ==
  LET ends == {i \in DOMAIN block : block[i] = "LF"}
                \cup (IF block = <<>> \/ Last(block) = "LF" THEN {} ELSE {Len(block) + 1})
      end == SetToSortSeq(ends, <)
      line(k) == SubSeq(block, IF k = 1 THEN 1 ELSE end[k - 1] + 1, end[k] - 1)
  IN [k \in DOMAIN end |->
        IF end[k] <= Len(block) /\ line(k) # <<>> /\ Last(line(k)) = "CR"
        THEN Front(line(k)) ELSE line(k)]

TrimStart(s) ==
  LET first == SelectInSeq(s, LAMBDA c : c # "sp")
  IN IF first = 0 THEN <<>> ELSE SubSeq(s, first, Len(s))

(* The values of the lines that begin with a field.                        *)
Fields(block, field) ==
  LET matching == SelectSeq(Lines(block), LAMBDA l : l # <<>> /\ Head(l) = field)
  IN [k \in DOMAIN matching |-> TrimStart(Tail(matching[k]))]

SseEventFromBlock(block) ==
  LET names == SelectSeq(Fields(block, "event:"), LAMBDA v : v # <<>>)
  IN IF names = <<>> THEN Absent ELSE names[1][1]

JoinLines(values) ==
  FlattenSeq([k \in DOMAIN values |-> IF k = 1 THEN values[k] ELSE <<"LF">> \o values[k]])

SseDataFromBlock(block) ==
  LET values == Fields(block, "data:")
  IN IF values = <<>> THEN Absent ELSE JoinLines(values)

(* What the task acts on: blocks with a name or with data.                 *)
Acted(es) == SelectSeq(es, LAMBDA e : e.name # Absent \/ e.data # Absent)

-------------------------------------------------------------------------------
(* The stream.                                                             *)

SseInit ==
  /\ sent = <<>> /\ received = 0
  /\ buffer = <<>> /\ utf8Remainder = <<>>
  /\ parsed = <<>>

Send ==
  /\ Len(sent) < MaxEvents
  /\ \E e \in Events : sent' = Append(sent, e)
  /\ UNCHANGED <<received, buffer, utf8Remainder, parsed>>

Parse(block) == [name |-> SseEventFromBlock(block), data |-> SseDataFromBlock(block)]

ParseChatSseBytes(bytes) ==
  LET combined == utf8Remainder \o bytes
      valid == ValidUpTo(combined)
      split == SplitBlocks(buffer \o SubSeq(combined, 1, valid))
  IN /\ buffer' = split.rest
     /\ utf8Remainder' = SubSeq(combined, valid + 1, Len(combined))
     /\ parsed' = parsed \o Acted([k \in DOMAIN split.blocks |-> Parse(split.blocks[k])])

Receive(n) ==
  /\ received + n <= Len(Bytes(sent))
  /\ received' = received + n
  /\ ParseChatSseBytes(SubSeq(Bytes(sent), received + 1, received + n))
  /\ UNCHANGED sent

(* The upstream has sent all it will and all of it was received.           *)
SseDone == Len(sent) = MaxEvents /\ received = Len(Bytes(sent)) /\ UNCHANGED sseVars

SseNext ==
  \/ Send
  \/ \E n \in 1..Len(Bytes(sent)) : Receive(n)
  \/ SseDone

SseSpec == SseInit /\ [][SseNext]_sseVars

-------------------------------------------------------------------------------
(* Properties.                                                             *)

EndOf(i) == Len(Bytes(SubSeq(sent, 1, i)))

Meaning(e) ==
  [name |-> e.name, data |-> IF e.data = <<>> THEN Absent ELSE JoinLines(e.data)]

(* parse_chat_sse_bytes gives the task exactly the events that were sent,  *)
(* each as soon as its last byte is received and once, wherever the        *)
(* network cuts, in particular within a character and within the           *)
(* delimiter, and whichever line end each event has; up to the first byte  *)
(* that is not UTF-8, after which nothing comes.                           *)
EventsIntact ==
  LET whole == Max({0} \cup {i \in DOMAIN sent :
                     EndOf(i) <= received /\ "bad" \notin ToSet(Bytes(SubSeq(sent, 1, i)))})
  IN parsed = Acted([i \in 1..whole |-> Meaning(sent[i])])
===============================================================================
