------------------------------ MODULE NuExtract ------------------------------
(***************************************************************************)
(* The extraction provider (src/internal/extraction/nuextract): a page's   *)
(* Markdown is split into chunks that fit the model (chunker.go), every    *)
(* chunk is sent to the model, what comes back is repaired into a JSON     *)
(* object, and the objects are merged (provider.go).                       *)
(*                                                                         *)
(* A text is a sequence of runes.  "w" takes two bytes and every other one *)
(* byte; "\n" ends a line, "_" is a space, "#" opens a heading.            *)
(*                                                                         *)
(* A model's answer is a sequence of JSON tokens: the braces "lbrace" and  *)
(* "rbrace", the brackets, "comma", the colon, the quote, the backslash,   *)
(* the number "1" and the letter "x".  Objects have at most one field, as  *)
(* each field is merged by itself.                                         *)
(* The texts of the chunks are dropped once they are sent (StartInference):*)
(* any answer may follow any chunk.  Progress callbacks are left out.      *)
(***************************************************************************)
EXTENDS Filters, FiniteSets, SequencesExt

CONSTANTS
  Runes,           \* the characters of texts
  Blocks,          \* the paragraphs and headings pages are made of
  MaxBlocks,       \* blocks of a page
  Limits,          \* configured content limits, in bytes
  ContextTokens,   \* configured sizes of the model's context
  MaxChunks,       \* pages of more chunks are only split, not inferred
  Objects          \* the JSON objects the model's answers are made from

Text == Seq(Runes)

ASSUME RunesAssumption == {"\n", "_", "#"} \subseteq Runes

ASSUME BlocksAssumption == Blocks \subseteq Text

ASSUME SizesAssumption ==
  /\ MaxBlocks \in Nat /\ MaxChunks \in Nat
  /\ Limits \subseteq Nat /\ ContextTokens \subseteq Int

VARIABLES
  doc,        \* req.Content
  limit,      \* chunkSize
  chunks,     \* the chunks' texts, until they are sent
  total,      \* len(chunks)
  at,         \* the chunk being processed, i + 1
  strict,     \* its one retry with the strict prompt is under way
  answer,     \* what the model answered last
  base,       \* baseJSON: the merged field, or NoField
  repaired,   \* finalRepaired
  skipped,    \* the chunks a warning says were skipped
  given,      \* the field each chunk was accepted with (for the properties)
  cut,        \* some accepted answer was truncated (for the properties)
  outcome     \* what Extract returns

pageVars == <<doc, limit, chunks>>
mergeVars == <<base, repaired, skipped, given, cut>>
vars == <<pageVars, total, at, strict, answer, mergeVars, outcome>>

Smaller(a, b) == IF a < b THEN a ELSE b
Larger(a, b) == IF a < b THEN b ELSE a

-----------------------------------------------------------------------------
(* chunker.go: sizes, lines and blocks *)

Schema == 900     \* bytes of a template

\* The tokens of the model's context, less the answer's, the prompt's
\* overhead and the template's, at three bytes a token.
contextBudget(contextTokens, configuredMaxBytes, schemaBytes) ==
  LET context == IF contextTokens <= 0 THEN 8192 ELSE contextTokens
      output  == Larger(512, Smaller(8192, context \div 4))
      schema  == (schemaBytes + 2) \div 3
      bytes   == 3 * Larger(256, context - output - 512 - schema)
  IN  IF configuredMaxBytes > 0 THEN Smaller(configuredMaxBytes, bytes)
                                ELSE bytes

IsWide(rune) == rune = "w"
Wide(text) == {i \in 1 .. Len(text) : IsWide(text[i])}
Size(text) == Len(text) + Cardinality(Wide(text))

TrimSpace(text) ==
  LET solid == {i \in 1 .. Len(text) : text[i] \notin {"\n", "_"}}
  IN  IF solid = {} THEN <<>>
      ELSE SubSeq(text, CHOOSE i \in solid : \A j \in solid : i <= j,
                        CHOOSE i \in solid : \A j \in solid : j <= i)

Lines(text) ==
  Iterate([ls \in Seq(Text) |-> [r \in Runes |->
             IF r = "\n" THEN Append(ls, <<>>)
             ELSE [ls EXCEPT ![Len(ls)] = Append(@, r)]]],
          << <<>> >>, text)

firstLine(text) == Head(Lines(text))

isHeading(block) == Len(block) > 1 /\ block[1] = "#" /\ block[2] = "_"

JoinLine(text, line) == IF text = <<>> THEN line ELSE text \o <<"\n">> \o line

\* A block ends at a blank line or before a line that starts with "#".
markdownBlocks(text) ==
  LET Flush(st) == IF st.cur = <<>> THEN st.blocks ELSE Append(st.blocks, st.cur)
      step == [st \in [blocks : Seq(Text), cur : Text] |-> [line \in Text |->
        CASE TrimSpace(line) = <<>> -> [blocks |-> Flush(st), cur |-> <<>>]
          [] TrimSpace(line) # <<>> /\ Head(TrimSpace(line)) = "#" ->
               [blocks |-> Flush(st), cur |-> line]
          [] OTHER -> [st EXCEPT !.cur = JoinLine(@, line)]]]
  IN  Flush(Iterate(step, [blocks |-> <<>>, cur |-> <<>>], Lines(text)))

-----------------------------------------------------------------------------
(* chunker.go: splitting *)

\* As many whole runes as fit, and at least one, make a part.
splitUTF8(value, maxBytes) ==
  Iterate([parts \in Seq(Text) |-> [r \in Runes |->
             IF Last(parts) = <<>> \/ Size(Append(Last(parts), r)) <= maxBytes
             THEN [parts EXCEPT ![Len(parts)] = Append(@, r)]
             ELSE Append(parts, <<r>>)]],
          << <<>> >>, value)

Bug_splitOversizedBlock(block, maxBytes) ==
  LET lines == Lines(block)
  IN  IF Size(block) <= maxBytes THEN <<block>>
      ELSE FlattenSeq([l \in 1 .. Len(lines) |->
                        Front(splitUTF8(lines[l], maxBytes))])

splitOversizedBlock(block, maxBytes) ==
  LET Packing == [parts : Seq(Text), cur : Text]
      pack == [st \in Packing |-> [part \in Text |->
        IF Size(JoinLine(st.cur, part)) > maxBytes
        THEN [parts |-> Append(st.parts, st.cur), cur |-> part]
        ELSE [st EXCEPT !.cur = JoinLine(@, part)]]]
      packLine == [st \in Packing |-> [line \in Text |->
        Iterate(pack, st, splitUTF8(line, maxBytes))]]
      end == Iterate(packLine, [parts |-> <<>>, cur |-> <<>>], Lines(block))
  IN  IF Size(block) <= maxBytes THEN <<block>>
      ELSE IF end.cur = <<>> THEN end.parts ELSE Append(end.parts, end.cur)

\* The loop's variables: chunks, current, heading and seen.
Splitting == [chunks : Seq(Text), cur : Text, heading : Text, seen : SUBSET Text]

flush(st) ==
  LET chunk == TrimSpace(st.cur)
      reset == [st EXCEPT !.cur = <<>>]
  IN  IF chunk = <<>> THEN reset
      ELSE [reset EXCEPT !.chunks = Append(@, chunk)]

Bug_appendPart(st, text, maxBytes) ==
  LET part   == TrimSpace(text)
      prefix == IF st.heading # <<>> /\ part # st.heading
                THEN st.heading \o <<"\n", "\n">> ELSE <<>>
      start  == [flush(st) EXCEPT !.cur = prefix]
  IN  CASE part = <<>> -> st
        [] Size(st.cur) + Size(part) > maxBytes -> [start EXCEPT !.cur = @ \o part]
        [] OTHER -> [st EXCEPT !.cur = @ \o part]

\* The separator counts towards the limit but is not written; a chunk that
\* starts here is given the heading if it leaves room for the part.
appendPart(st, text, maxBytes) ==
  LET part      == TrimSpace(text)
      prefix    == IF st.heading # <<>> /\ part # st.heading
                   THEN st.heading \o <<"\n", "\n">> ELSE <<>>
      separator == IF st.cur = <<>> THEN 0 ELSE 2
      start     == IF Size(prefix) + Size(part) <= maxBytes
                   THEN [flush(st) EXCEPT !.cur = prefix] ELSE flush(st)
      room      == Size(st.cur) + separator + Size(part) <= maxBytes
  IN  IF part = <<>> THEN st
      ELSE [(IF room THEN st ELSE start) EXCEPT !.cur = @ \o part]

\* A block already seen is dropped, before its heading is noted.
addBlock(st, text, maxBytes) ==
  LET block   == TrimSpace(text)
      heading == IF isHeading(block) THEN firstLine(block) ELSE st.heading
      crumb   == Size(heading) + 2
      limited == heading # <<>> /\ block # heading /\ crumb < maxBytes
      parts   == splitOversizedBlock(block,
                   IF limited THEN maxBytes - crumb ELSE maxBytes)
      noted   == [st EXCEPT !.seen = @ \union {block}, !.heading = heading]
  IN  IF block \in st.seen THEN st
      ELSE Iterate([s \in Splitting |-> [p \in Text |-> appendPart(s, p, maxBytes)]],
                   noted, parts)

splitSemanticMarkdown(content, maxBytes) ==
  LET text  == TrimSpace(content)
      empty == [chunks |-> <<>>, cur |-> <<>>, heading |-> <<>>, seen |-> {}]
  IN  IF text = <<>> \/ maxBytes <= 0 \/ Size(text) <= maxBytes
      THEN <<text>>
      ELSE flush(Iterate([s \in Splitting |-> [b \in Text |-> addBlock(s, b, maxBytes)]],
                         empty, markdownBlocks(text))).chunks

-----------------------------------------------------------------------------
(* provider.go: repairing an answer *)

Openers == {"lbrace", "["}
Closers == {"rbrace", "]"}
Tokens == Openers \union Closers \union {"comma", ":", "'", "\\", "1", "x"}
CloserOf(opener) == IF opener = "lbrace" THEN "rbrace" ELSE "]"

\* What a walk over an answer knows: whether a string or an escape is open,
\* the closers of the brackets open outside strings, and their depth.
Walks == [escaped : BOOLEAN, inString : BOOLEAN, stack : Seq(Closers), depth : Int]

Outside(stack, depth) ==
  [escaped |-> FALSE, inString |-> FALSE, stack |-> stack, depth |-> depth]

Quiet(st) == ~st.escaped /\ ~st.inString

Walk(st, t) ==
  CASE st.escaped -> [st EXCEPT !.escaped = FALSE]
    [] ~st.escaped /\ st.inString /\ t = "\\" -> [st EXCEPT !.escaped = TRUE]
    [] ~st.escaped /\ t = "'" -> [st EXCEPT !.inString = ~@]
    [] Quiet(st) /\ t \in Openers ->
         Outside(Append(st.stack, CloserOf(t)), st.depth + 1)
    [] Quiet(st) /\ t \in Closers ->
         Outside(IF st.stack # <<>> /\ Last(st.stack) = t THEN Front(st.stack)
                                                          ELSE st.stack,
                 st.depth - 1)
    [] OTHER -> st

\* What the walk knows after each prefix of an answer.
After(s) ==
  [k \in 0 .. Len(s) |-> Iterate([st \in Walks |-> [t \in Tokens |-> Walk(st, t)]],
                                 Outside(<<>>, 0), SubSeq(s, 1, k))]

\* The place of the bracket that closes the first one; 0: there is none.
ObjectEnd(s) ==
  LET st == After(s)
      ends == {k \in 1 .. Len(s) :
                 s[k] \in Closers /\ Quiet(st[k - 1]) /\ st[k].depth = 0}
  IN  IF ends = {} THEN 0 ELSE CHOOSE k \in ends : \A m \in ends : k <= m

\* The tokens of s without those at some places.
Without(s, dropped) ==
  Iterate([r \in Seq(Tokens) |-> [k \in Nat |->
             IF k \in dropped THEN r ELSE Append(r, s[k])]],
          <<>>, [k \in 1 .. Len(s) |-> k])

Bug_stripTrailingCommas(s) ==
  Without(s, {k \in 1 .. Len(s) : s[k] = "comma" /\ k < Len(s) /\ s[k + 1] \in Closers})

stripTrailingCommas(s) ==
  Without(s, {k \in 1 .. Len(s) : /\ s[k] = "comma" /\ Quiet(After(s)[k - 1])
                                  /\ k < Len(s) /\ s[k + 1] \in Closers})

repairTruncated(s) ==
  LET st == After(s)[Len(s)]
  IN  s \o (IF st.inString THEN <<"'">> ELSE <<>>) \o Reverse(st.stack)

\* json.Unmarshal: which texts are JSON.  want is what may come next; a key
\* or a value that is a string is read up to its closing quote.
Wants == {"value", "item", "member", "key", "colon", "more", "bad",
          "keyText", "keyEscape", "text", "escape"}

Parses == [stack : Seq(Closers), want : Wants]

JsonStep(st, t) ==
  LET Want(w) == [stack |-> st.stack, want |-> w]
      Opened  == [stack |-> Append(st.stack, CloserOf(t)),
                  want |-> IF t = "lbrace" THEN "member" ELSE "item"]
      Closed  == [stack |-> Front(st.stack), want |-> "more"]
      top     == IF st.stack = <<>> THEN "" ELSE Last(st.stack)
  IN  CASE st.want = "keyText" /\ t = "'" -> Want("colon")
        [] st.want = "keyText" /\ t = "\\" -> Want("keyEscape")
        [] st.want = "text" /\ t = "'" -> Want("more")
        [] st.want = "text" /\ t = "\\" -> Want("escape")
        [] st.want \in {"keyText", "text"} /\ t \notin {"'", "\\"} -> st
        [] st.want = "keyEscape" /\ t \in {"'", "\\"} -> Want("keyText")
        [] st.want = "escape" /\ t \in {"'", "\\"} -> Want("text")
        [] st.want \in {"value", "item"} /\ t \in Openers -> Opened
        [] st.want \in {"value", "item"} /\ t = "'" -> Want("text")
        [] st.want \in {"value", "item"} /\ t = "1" -> Want("more")
        [] st.want \in {"member", "key"} /\ t = "'" -> Want("keyText")
        [] st.want = "colon" /\ t = ":" -> Want("value")
        [] st.want \in {"more", "item", "member"} /\ t \in Closers /\ t = top -> Closed
        [] st.want = "more" /\ top = "rbrace" /\ t = "comma" -> Want("key")
        [] st.want = "more" /\ top = "]" /\ t = "comma" -> Want("value")
        [] OTHER -> Want("bad")

Parse(s) == Iterate([st \in Parses |-> [t \in Tokens |-> JsonStep(st, t)]],
                    [stack |-> <<>>, want |-> "value"], s)

IsJSON(s) == Parse(s) = [stack |-> <<>>, want |-> "more"]

extractAndRepairJSON(s) ==
  LET opens     == {k \in 1 .. Len(s) : s[k] = "lbrace"}
      start     == CHOOSE k \in opens : \A m \in opens : k <= m
      rest      == SubSeq(s, start, Len(s))
      end       == ObjectEnd(rest)
      candidate == IF end # 0 THEN SubSeq(rest, 1, end) ELSE repairTruncated(rest)
      cleaned   == stripTrailingCommas(candidate)
      none      == [json |-> <<>>, repaired |-> FALSE, ok |-> FALSE]
  IN  IF opens = {} \/ ~ IsJSON(cleaned) THEN none
      ELSE [json |-> cleaned, repaired |-> end = 0 \/ cleaned # candidate,
            ok |-> TRUE]

-----------------------------------------------------------------------------
(* The answers a model may give *)

\* The commas of s inside depth brackets and outside strings.
Commas(s, depth) ==
  LET st == After(s)
  IN  {k \in 1 .. Len(s) : /\ s[k] = "comma" /\ Quiet(st[k - 1])
                           /\ st[k - 1].depth = depth}

\* The objects a chunk may yield: an empty one or one field, of any value.
ASSUME ObjectsAssumption ==
  \A o \in Objects :
    /\ o \in Seq(Tokens) /\ IsJSON(o)
    /\ \/ o = <<"lbrace", "rbrace">>
       \/ /\ IsPrefix(<<"lbrace", "'", "x", "'", ":">>, o)
          /\ Commas(o, 1) = {}

WithCommas(obj) ==
  Iterate([r \in Seq(Tokens) |-> [k \in Nat |->
             IF obj[k] \in Closers /\ Quiet(After(obj)[k - 1])
             THEN r \o <<"comma", obj[k]>> ELSE Append(r, obj[k])]],
          <<>>, [k \in 1 .. Len(obj) |-> k])

\* A whole object in a fence, one with trailing commas, one cut short by the
\* output limit, or no object at all.
Outputs ==
  [of : Objects, form : {"whole", "commas"}, kept : {0}]
    \union UNION {[of : {o}, form : {"cut"}, kept : 0 .. Len(o) - 1] : o \in Objects}

OutputText(o) ==
  CASE o.form = "whole"  -> <<"x">> \o o.of \o <<"x", "rbrace">>
    [] o.form = "commas" -> WithCommas(o.of) \o <<"x">>
    [] o.form = "cut"    -> SubSeq(o.of, 1, o.kept)

NoField == [kind |-> "none", items |-> <<>>]

\* What an object holds in the field, and of how many items.
FieldOf(json) ==
  LET kind == IF Len(json) < 6 THEN "none"
              ELSE IF json[6] = "[" THEN "list" ELSE "scalar"
  IN  [kind |-> kind,
       count |-> IF kind # "list" \/ json[7] = "]" THEN 0
                 ELSE Cardinality(Commas(json, 2)) + 1]

\* An answer: what the model put out and what the repair makes of it.
Answers ==
  {LET got == extractAndRepairJSON(OutputText(o))
   IN  [output |-> o, got |-> got, field |-> FieldOf(got.json)] : o \in Outputs}

NoAnswer == [output |-> [of |-> <<>>, form |-> "none", kept |-> 0]]

\* The field chunk c gave: the n-th item of its list is <<c, n>>.
Parsed(c, a) == [kind |-> a.field.kind,
                 items |-> [n \in 1 .. a.field.count |-> <<c, n>>]]

-----------------------------------------------------------------------------
(* provider.go: Extract *)

Pages ==
  LET write == [text \in Text |-> [b \in Text |->
                  IF text = <<>> THEN b ELSE text \o <<"\n", "\n">> \o b]]
  IN  {Iterate(write, <<>>, bs) : bs \in BoundedSeq(Blocks, MaxBlocks)}

Init ==
  /\ doc \in Pages
  /\ \E configured \in Limits, context \in ContextTokens :
       limit = contextBudget(context, configured, Schema)
  /\ chunks = <<>> /\ total = 0 /\ at = 0
  /\ strict = FALSE /\ answer = NoAnswer
  /\ base = NoField /\ repaired = FALSE /\ skipped = {}
  /\ given = [c \in {} |-> NoField] /\ cut = FALSE
  /\ outcome = "running"

Split ==
  /\ total = 0
  /\ chunks' = splitSemanticMarkdown(doc, limit)
  /\ total' = Len(chunks')
  /\ UNCHANGED <<doc, limit, at, strict, answer, mergeVars, outcome>>

StartInference ==
  /\ at = 0 /\ total \in 1 .. MaxChunks
  /\ at' = 1
  /\ doc' = <<>> /\ chunks' = <<>> /\ limit' = 0
  /\ UNCHANGED <<total, strict, answer, mergeVars, outcome>>

Pending == outcome = "running" /\ at \in 1 .. total

\* client.Infer or InferStream: the answer, or an error that ends Extract.
Infer ==
  /\ Pending /\ answer = NoAnswer
  /\ answer' \in Answers
  /\ UNCHANGED <<pageVars, total, at, strict, mergeVars, outcome>>

InferFails ==
  /\ Pending /\ answer = NoAnswer
  /\ outcome' = "unavailable"
  /\ UNCHANGED <<pageVars, total, at, strict, answer, mergeVars>>

NextChunk == at' = at + 1 /\ strict' = FALSE /\ answer' = NoAnswer

Given(chunk, field) ==
  [c \in DOMAIN given \union {chunk} |-> IF c = chunk THEN field ELSE given[c]]

Bug_Merge(c, field) ==
  IF c = 1 THEN field
  ELSE IF field.kind = "list" /\ base.kind = "list"
       THEN [base EXCEPT !.items = @ \o field.items] ELSE base

\* Later chunks only add to lists, or give one where the field is missing.
Merge(c, field) ==
  IF c = 1 THEN field
  ELSE IF field.kind = "list" /\ base.kind \in {"list", "none"}
       THEN [field EXCEPT !.items = base.items \o @] ELSE base

Bug_Accept ==
  /\ Pending /\ answer # NoAnswer /\ answer.got.ok
  /\ base' = Merge(at, Parsed(at, answer))
  /\ repaired' = answer.got.repaired
  /\ given' = Given(at, Parsed(at, answer))
  /\ cut' = (cut \/ answer.output.form = "cut")
  /\ NextChunk
  /\ UNCHANGED <<pageVars, total, skipped, outcome>>

Accept ==
  /\ Pending /\ answer # NoAnswer /\ answer.got.ok
  /\ base' = Merge(at, Parsed(at, answer))
  /\ repaired' = (repaired \/ answer.got.repaired)
  /\ given' = Given(at, Parsed(at, answer))
  /\ cut' = (cut \/ answer.output.form = "cut")
  /\ NextChunk
  /\ UNCHANGED <<pageVars, total, skipped, outcome>>

Retry ==
  /\ Pending /\ answer # NoAnswer /\ ~ answer.got.ok /\ ~ strict
  /\ strict' = TRUE /\ answer' = NoAnswer
  /\ UNCHANGED <<pageVars, total, at, mergeVars, outcome>>

\* The strict retry failed too: fatal for the first chunk, a warning later.
GiveUp ==
  /\ Pending /\ answer # NoAnswer /\ ~ answer.got.ok /\ strict
  /\ IF at = 1
     THEN /\ outcome' = "failed"
          /\ UNCHANGED <<at, strict, answer, skipped>>
     ELSE /\ skipped' = skipped \union {at}
          /\ NextChunk
          /\ UNCHANGED outcome
  /\ UNCHANGED <<pageVars, total, base, repaired, given, cut>>

Finish ==
  /\ outcome = "running" /\ at > 0 /\ at = total + 1
  /\ outcome' = "ok"
  /\ UNCHANGED <<pageVars, total, at, strict, answer, mergeVars>>

Next ==
  \/ Split \/ StartInference \/ Infer \/ InferFails
  \/ Accept \/ Retry \/ GiveUp \/ Finish

Spec == Init /\ [][Next]_vars

-----------------------------------------------------------------------------
(* Properties *)

\* What is written of a text, and of some texts one after the other.
Letters(text) == Filter(text, Runes \ {"\n", "_", "#"})
Written(texts) == Iterate([text \in Text |-> [t \in Text |-> text \o t]], <<>>, texts)

\* The runes of s occur in t, in their order.
Embeds(s, t) ==
  Len(s) = Iterate([k \in Nat |-> [r \in Runes |->
                      IF k < Len(s) /\ s[k + 1] = r THEN k + 1 ELSE k]], 0, t)

\* The blocks without the spaces around them and without repetitions.
FirstOccurrences(blocks) ==
  Iterate([kept \in Seq(Text) |-> [b \in Text |->
             IF TrimSpace(b) \in ToSet(kept) THEN kept ELSE Append(kept, TrimSpace(b))]],
          <<>>, blocks)

\* No chunk is longer than the limit: chunker.go says that the hard limit is
\* always respected, whatever is split, carried over or repeated.
LimitRespected == \A c \in ToSet(chunks) : Size(c) <= limit

\* Every letter of the page reaches the model, in the page's order, except
\* those of blocks that repeat an earlier block: no rune is lost at the
\* boundaries of lines, parts and chunks.
NoTextLost ==
  chunks # <<>> =>
    Embeds(Letters(Written(FirstOccurrences(markdownBlocks(TrimSpace(doc))))),
           Letters(Written(chunks)))

\* Repairing returns a whole object as it is, one with trailing commas
\* without them, and a truncated one exactly when closing its brackets can
\* make it whole, flagged and with no item the model did not give.
RepairFaithful ==
  answer # NoAnswer =>
    LET out   == answer.output
        got   == answer.got
        end   == Parse(OutputText(out))
        comma == out.kept > 0 /\ out.of[out.kept] = "comma"
        closable == \/ end.want \in {"more", "item", "member", "text"}
                    \/ end.want \in {"key", "value"} /\ comma
    IN  IF out.form = "cut"
        THEN /\ got.ok <=> closable
             /\ got.ok => /\ got.repaired
                          /\ answer.field.kind \in {"none", FieldOf(out.of).kind}
                          /\ answer.field.count <= FieldOf(out.of).count
        ELSE got = [json |-> out.of, repaired |-> out.form = "commas", ok |-> TRUE]

\* The result holds the items of every accepted chunk's list, in the order of
\* the chunks and each once, unless the first chunk gave the field another
\* kind of value; then it holds that value.
NoItemLost ==
  outcome = "ok" =>
    LET Before(x, y) == x[1] < y[1] \/ (x[1] = y[1] /\ x[2] < y[2])
    IN  IF given[1].kind = "scalar" THEN base = given[1]
        ELSE /\ ToSet(base.items) = UNION {ToSet(given[c].items) : c \in DOMAIN given}
             /\ \A i, j \in DOMAIN base.items :
                   i < j => Before(base.items[i], base.items[j])

\* A result tells what is missing from it: a chunk that gave nothing has its
\* warning, and a truncated answer leaves the result marked as repaired.
GapsAreReported ==
  outcome = "ok" =>
    /\ \A c \in 1 .. total : (c \in skipped) <=> (c \notin DOMAIN given)
    /\ 1 \notin skipped
    /\ cut => repaired

\* A block of a chunk is a block of the page or a piece of one: packing never
\* joins two blocks into one (chunker.go: "packs complete Markdown blocks").
BlocksKeptApart ==
  LET Pieces(b) == {SubSeq(b, i, j) : i, j \in 1 .. Len(b)}
  IN  \A c \in ToSet(chunks) : \A b \in ToSet(markdownBlocks(c)) :
        \E block \in ToSet(markdownBlocks(doc)) : b \in Pieces(block)
=============================================================================
