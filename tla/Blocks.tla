------------------------------- MODULE Blocks -------------------------------
(***************************************************************************)
(* From a source text to what a load stores and embeds                     *)
(* (src/src/domain/collections.rs): parse_block_lines, line by line, then  *)
(* prepare_documents.  A client may post what list_handler shows of a      *)
(* collection to load_from_web; that text is then parsed in its turn.      *)
(*                                                                         *)
(* A line is what its beginning makes of it, and where it stood in the     *)
(* first text.  White space within lines, and the cut of a service's key   *)
(* at 300 characters of its last line, are left out.                       *)
(***************************************************************************)
EXTENDS Integers, Sequences, FiniteSets

CONSTANTS
  Kinds,     \* the kinds of content
  MaxLines   \* bound on the length of the first text

ASSUME BlocksAssumption ==
  /\ Kinds \subseteq {"services", "faqs", "pareceres", "notas"}
  /\ MaxLines \in Nat

\* Blank; `## pergunta'; another `##'; `// '; `//' without the space;
\* `Acessar o serviço'; anything else.
Beginnings == {"blank", "mark", "head", "slash", "bare", "link", "text"}
Lines == [is : Beginnings, at : 0..MaxLines]

VARIABLES
  kind,      \* the Collection the text is loaded into
  lines,     \* the text
  next, current, in_entry, blocks,  \* the locals of parse_block_lines
  stored, keys,                     \* the result of prepare_documents
  phase,     \* "parse", "parsed" or "loaded"
  pass,      \* 1; 2 for the text posted back
  first      \* history: the documents the first text stored

parser == <<next, current, in_entry, blocks>>
prepared == <<stored, keys>>
vars == <<kind, lines, parser, prepared, phase, pass, first>>

\* qa_mode is the negation: every other kind has the delimiter `## pergunta'.
Services == kind = "services"

IsBlank(l) == l.is = "blank"
IsComment(l) == ~Services /\ l.is = "slash"
IsDelimiter(l) == IF Services THEN l.is \in {"slash", "bare"} ELSE l.is = "mark"

\* The n-th smallest of some positions.
Nth(P, n) == CHOOSE i \in P : Cardinality({ j \in P : j < i }) = n - 1

\* The members of s at the positions P, in their order.
At(s, P) == [n \in 1..Cardinality(P) |-> s[Nth(P, n)]]

\* str::trim: blank lines at either end go.
Trim(ls) ==
  LET solid == { i \in DOMAIN ls : ~IsBlank(ls[i]) }
  IN  At(ls, { i \in DOMAIN ls : \E j, k \in solid : j <= i /\ i <= k })

\* Variant: a block is pushed even when there is nothing in it.
PushAlways == Append(blocks, Trim(current))

Push == IF Trim(current) = <<>> THEN blocks ELSE Append(blocks, Trim(current))

-----------------------------------------------------------------------------

Init ==
  /\ kind \in Kinds
  /\ \E n \in 0..MaxLines : \E b \in [1..n -> Beginnings] :
       lines = [i \in 1..n |-> [is |-> b[i], at |-> i]]
  /\ next = 1 /\ current = <<>> /\ in_entry = Services /\ blocks = <<>>
  /\ stored = <<>> /\ keys = <<>>
  /\ phase = "parse" /\ pass = 1
  /\ first = <<>>

(* parse_block_lines, one action for each way through the loop.            *)

AtLine == phase = "parse" /\ next \in DOMAIN lines

Comment ==
  /\ AtLine /\ IsComment(lines[next])
  /\ next' = next + 1
  /\ UNCHANGED <<kind, lines, current, in_entry, blocks, prepared, phase, pass, first>>

\* Variant: the block pushed is not cleared.
DelimiterKeeping ==
  /\ AtLine /\ IsDelimiter(lines[next])
  /\ blocks' = Push
  /\ current' = Append(current, lines[next])
  /\ in_entry' = TRUE
  /\ next' = next + 1
  /\ UNCHANGED <<kind, lines, prepared, phase, pass, first>>

Delimiter ==
  /\ AtLine /\ IsDelimiter(lines[next])
  /\ blocks' = Push
  /\ current' = <<lines[next]>>
  /\ in_entry' = TRUE
  /\ next' = next + 1
  /\ UNCHANGED <<kind, lines, prepared, phase, pass, first>>

Content ==
  /\ AtLine /\ ~IsComment(lines[next]) /\ ~IsDelimiter(lines[next])
  /\ current' = IF in_entry THEN Append(current, lines[next]) ELSE current
  /\ next' = next + 1
  /\ UNCHANGED <<kind, lines, in_entry, blocks, prepared, phase, pass, first>>

EndOfText ==
  /\ phase = "parse" /\ next \notin DOMAIN lines
  /\ blocks' = Push
  /\ phase' = "parsed"
  /\ UNCHANGED <<kind, lines, next, current, in_entry, prepared, pass, first>>

(* prepare_documents.                                                      *)

\* The lines between `## pergunta', the first line of every block, and the
\* next `##'.
Asked(block) ==
  At(block, { i \in 2..Len(block) :
                /\ ~IsBlank(block[i])
                /\ \A j \in 2..i : block[j].is \notin {"mark", "head"} })

\* Variant: an empty question is not replaced by its block.
QuestionOnly(block) == Asked(block)

\* extract_question
Question(block) == IF Asked(block) = <<>> THEN block ELSE Asked(block)

\* The lines of a block that begin with none of these.
Without(block, begins) == At(block, { i \in DOMAIN block : block[i].is \notin begins })

\* Variant: separators stay in the document.
CleanedOfLinks(block) == Without(block, {"blank", "link"})

\* clean_servico
Cleaned(block) == Without(block, {"blank", "slash", "bare", "link"})

\* extract_servico_description
Description(doc) == IF Len(doc) <= 4 THEN doc ELSE SubSeq(doc, 1, 4)

Prepare ==
  /\ phase = "parsed"
  /\ stored' = IF Services THEN [n \in DOMAIN blocks |-> Cleaned(blocks[n])] ELSE blocks
  /\ keys' = CASE Services       -> [n \in DOMAIN blocks |-> Description(stored'[n])]
               [] kind = "notas" -> stored'
               [] OTHER          -> [n \in DOMAIN blocks |-> Question(blocks[n])]
  /\ phase' = "loaded"
  /\ UNCHANGED <<kind, lines, parser, pass, first>>

(* list_handler shows each document after a blank line and a line `// n',  *)
(* an empty one as a blank line; a client posts that text to load_from_web.*)

Added(beginning) == [is |-> beginning, at |-> 0]
Shown(doc) ==
  <<Added("blank"), Added("slash")>> \o (IF doc = <<>> THEN <<Added("blank")>> ELSE doc)
Listing(docs) ==
  LET upto[n \in 0..Len(docs)] == IF n = 0 THEN <<>> ELSE upto[n - 1] \o Shown(docs[n])
  IN  upto[Len(docs)]

PostBack ==
  /\ phase = "loaded" /\ pass = 1
  /\ lines' = Listing(stored)
  /\ next' = 1 /\ current' = <<>> /\ in_entry' = Services /\ blocks' = <<>>
  /\ stored' = <<>> /\ keys' = <<>>
  /\ phase' = "parse" /\ pass' = 2
  /\ first' = stored
  /\ UNCHANGED kind

Next == Comment \/ Delimiter \/ Content \/ EndOfText \/ Prepare \/ PostBack

Spec == Init /\ [][Next]_vars

-----------------------------------------------------------------------------
(* Properties.                                                             *)

\* Types; no block is empty.
TypeOK ==
  /\ kind \in Kinds
  /\ lines \in Seq(Lines) /\ current \in Seq(Lines)
  /\ next \in 1..(Len(lines) + 1)
  /\ in_entry \in BOOLEAN
  /\ blocks \in Seq(Seq(Lines) \ {<<>>})
  /\ stored \in Seq(Seq(Lines)) /\ keys \in Seq(Seq(Lines)) /\ first \in Seq(Seq(Lines))
  /\ phase \in {"parse", "parsed", "loaded"} /\ pass \in {1, 2}

\* The blocks of a text, without a loop: an entry reaches from a delimiter to
\* the next; a text of services has one before its first delimiter too;
\* comments belong to none, and entries without content are no blocks.
Starts(text) ==
  { i \in DOMAIN text : IsDelimiter(text[i]) } \cup (IF Services THEN {1} ELSE {})
Entry(text, i) ==
  Trim(At(text, { k \in DOMAIN text :
                    /\ i <= k /\ ~IsComment(text[k])
                    /\ \A j \in Starts(text) : j <= k => j <= i }))
Entries(text) ==
  At([i \in Starts(text) |-> Entry(text, i)],
     { i \in Starts(text) : Entry(text, i) # <<>> })

\* The loop cuts a text into exactly these blocks: no line of content is lost,
\* doubled or moved to the neighbouring document (collections.rs:80-86).
ParsesIntoEntries == phase # "parse" => blocks = Entries(lines)

\* Every document has its own key, taken from its own lines in their order,
\* and empty only for an empty document (upsert zips documents with vectors).
KeysFit ==
  phase = "loaded" =>
    /\ Len(keys) = Len(stored)
    /\ \A n \in DOMAIN stored :
         /\ keys[n] = <<>> => stored[n] = <<>>
         /\ \E at \in SUBSET DOMAIN stored[n] : keys[n] = At(stored[n], at)

\* A listing, posted back, stores the documents it shows: the lines `// n' are
\* comments to one parser and separators to the other, and neither ends up in
\* a document.
ListingReloads == phase = "loaded" /\ pass = 2 => stored = first
=============================================================================
