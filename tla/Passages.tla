------------------------------ MODULE Passages ------------------------------
(***************************************************************************)
(* How a document is cut into chunks (rag/chunkers.go, rag/chunk.go) and   *)
(* how a chunk is found again in it (rag/document.go).                     *)
(*                                                                         *)
(* A text is a sequence of tokens: line ends and words.  A word is its kind*)
(* (what the chunkers look at) and its name; spaces between the words of a *)
(* line are left out, and a piece is the sequence of its words.  No word is*)
(* a part of another, so a match, which passes over white space, is one of *)
(* whole words.                                                            *)
(*                                                                         *)
(*   "word"      a word that ends no sentence                              *)
(*   "capital"   one that begins with an upper-case letter or a digit      *)
(*   "stop"      one with a full stop after it                             *)
(*   "abbrev"    an abbreviation, with its full stop                       *)
(*   "mark"      one with an exclamation or question mark                  *)
(*   "h1", "h2"  the marker of a heading, at the start of its line         *)
(*   "row"       a table row, the only word of its line                    *)
(*   "fence"     three back-quotes                                         *)
(***************************************************************************)
EXTENDS SequencesExt

Kinds == {"word", "capital", "stop", "abbrev", "mark", "h1", "h2", "row", "fence"}

NL == [kind |-> "nl", name |-> 0]

IsWord(t) == t.kind # "nl"

Fields(text) == SelectSeq(text, IsWord)

wordCount(text) == Len(Fields(text))

Blank(text) == Fields(text) = <<>>

lastWords(words, n) == IF n >= Len(words) THEN words ELSE SubSeq(words, Len(words) - n + 1, Len(words))

\* The parts of a text that end at the given positions, and what is left.
Cut(text, ends) ==
  LET starts == {1} \cup {i + 1 : i \in ends}
      part(i) == SubSeq(text, i, Min({j \in ends : j >= i} \cup {Len(text)}))
      sorted == SetToSortSeq({i \in starts : i <= Len(text)}, <)
  IN  [k \in DOMAIN sorted |-> part(sorted[k])]

\* A target that is not positive takes the defaults, and an overlap that leaves no
\* room a quarter of the target.
chunkBounds(cfg) ==
  LET d == IF cfg.target <= 0 THEN [target |-> 120, overlap |-> 24]
           ELSE [target |-> cfg.target, overlap |-> cfg.overlap]
  IN  IF d.overlap < 0 \/ d.overlap >= d.target THEN [d EXCEPT !.overlap = d.target \div 4] ELSE d

-----------------------------------------------------------------------------
(* Windows of words.                                                        *)

\* The last window is the first that reaches the end.
wordChunker(text, b) ==
  LET words    == Fields(text)
      stride   == b.target - b.overlap
      start(k) == (k - 1) * stride + 1
      window(k) == SubSeq(words, start(k), Min({start(k) + b.target - 1, Len(words)}))
      n == IF words = <<>> THEN 0
           ELSE Min({k \in 1..Len(words) : start(k) + b.target - 1 >= Len(words)})
  IN  [k \in 1..n |-> window(k)]

-----------------------------------------------------------------------------
(* Fragments, packed to the target.                                         *)

\* Where each separator of the hierarchy ends: a blank line, a line, a sentence on one
\* line, a word.
ParagraphEnds(text) ==
  LET run(i) == Max({n \in 0..i : \A j \in (i - n + 1)..i : text[j] = NL})
  IN  {i \in DOMAIN text : run(i) > 0 /\ run(i) % 2 = 0}
LineEnds(text) == {i \in DOMAIN text : text[i] = NL}
SpaceEnds(text) == {i \in 1..(Len(text) - 1) : IsWord(text[i]) /\ IsWord(text[i + 1])}
StopEnds(text) == {i \in SpaceEnds(text) : text[i].kind \in {"stop", "abbrev"}}

\* Every fragment over the target is cut at the next separator of the hierarchy.
splitRecursive(text, target) ==
  LET refine(frags, ends(_)) ==
        FlattenSeq([k \in DOMAIN frags |->
          IF wordCount(frags[k]) <= target THEN <<frags[k]>>
          ELSE SelectSeq(Cut(frags[k], ends(frags[k])), LAMBDA part : ~Blank(part))])
  IN  IF Blank(text) THEN <<>>
      ELSE refine(refine(refine(refine(<<text>>, ParagraphEnds), LineEnds), StopEnds), SpaceEnds)

\* Wrong variant of packFragments: the words that did not fit are not begun with.
packDropping(frags, b) ==
  LET put(acc, f) ==
        IF acc.cur # <<>> /\ Len(acc.cur) + wordCount(f) > b.target
        THEN [out |-> Append(acc.out, acc.cur), cur |-> lastWords(acc.cur, b.overlap)]
        ELSE [acc EXCEPT !.cur = @ \o Fields(f)]
      all == FoldLeft(put, [out |-> <<>>, cur |-> <<>>], frags)
  IN  IF all.cur = <<>> THEN all.out ELSE Append(all.out, all.cur)

\* A fragment that does not fit begins a new piece, after the last words of the one it
\* did not fit in; whether it fits after those is not looked at.
packFragments(frags, b) ==
  LET put(acc, f) ==
        IF acc.cur # <<>> /\ Len(acc.cur) + wordCount(f) > b.target
        THEN [out |-> Append(acc.out, acc.cur), cur |-> lastWords(acc.cur, b.overlap) \o Fields(f)]
        ELSE [acc EXCEPT !.cur = @ \o Fields(f)]
      all == FoldLeft(put, [out |-> <<>>, cur |-> <<>>], frags)
  IN  IF all.cur = <<>> THEN all.out ELSE Append(all.out, all.cur)

recursiveChunker(text, b) == packFragments(splitRecursive(text, b.target), b)

\* A full stop ends a sentence before a capital, a digit or the end, and never after an
\* abbreviation; line ends are white space.
SentenceEnds(text) ==
  LET next(i) == SelectInSubSeq(text, i + 1, Len(text), IsWord)
  IN  {i \in DOMAIN text :
         \/ text[i].kind = "mark"
         \/ text[i].kind = "stop" /\ (next(i) = 0 \/ text[next(i)].kind = "capital")}

splitSentences(text) == SelectSeq(Cut(text, SentenceEnds(text)), LAMBDA s : ~Blank(s))

sentenceChunker(text, b) == packFragments(splitSentences(text), b)

-----------------------------------------------------------------------------
(* Markdown: headings, tables and fenced code.                              *)

Lines(text) ==
  LET cut == Cut(text, LineEnds(text))
      bare == [k \in DOMAIN cut |-> Fields(cut[k])]
  IN  IF text # <<>> /\ Last(text) = NL THEN Append(bare, <<>>) ELSE bare

Starts(line, kinds) == line # <<>> /\ line[1].kind \in kinds
IsFence(line) == Starts(line, {"fence"})
isTableRow(line) == Starts(line, {"row"})
atxHeading(line) == Starts(line, {"h1", "h2"}) /\ Len(line) > 1
Level(line) == IF line[1].kind = "h1" THEN 1 ELSE 2

\* The body so far as a text again.
Joined(lines) ==
  FlattenSeq([k \in DOMAIN lines |-> IF k < Len(lines) THEN Append(lines[k], NL) ELSE lines[k]])

lastNonEmpty(lines) ==
  LET i == SelectLastInSeq(lines, LAMBDA l : l # <<>>) IN IF i = 0 THEN <<>> ELSE lines[i]

\* Path of the headings in force, and the pieces they are put on.
Path(acc) == [k \in DOMAIN acc.stack |-> acc.stack[k].title]
Emit(acc, texts) == [acc EXCEPT !.out = @ \o [k \in DOMAIN texts |-> [words |-> texts[k], headings |-> Path(acc)]]]

flush(acc, b) ==
  IF acc.body = <<>> THEN acc
  ELSE [Emit(acc, packFragments(splitRecursive(Joined(acc.body), b.target), b)) EXCEPT !.body = <<>>]

flushTable(acc) ==
  IF acc.table = <<>> THEN acc
  ELSE [Emit(acc, <<acc.caption \o acc.table>>) EXCEPT !.table = <<>>, !.caption = <<>>]

flushFence(acc) ==
  IF acc.fence = <<>> THEN acc ELSE [Emit(acc, <<acc.fence>>) EXCEPT !.fence = <<>>]

\* Wrong variant of Under: a heading is pushed on those of its own level too.
UnderAll(stack, line) ==
  Append(SelectSeq(stack, LAMBDA h : h.level <= Level(line)), [level |-> Level(line), title |-> Tail(line)])

\* A heading takes those of its level and deeper ones off.
Under(stack, line) ==
  Append(SelectSeq(stack, LAMBDA h : h.level < Level(line)), [level |-> Level(line), title |-> Tail(line)])

\* One line: inside a fence, the opening of one, a row, a heading, or prose.
ReadLine(acc, line, b) ==
  IF acc.inFence
  THEN LET more == [acc EXCEPT !.fence = @ \o line]
       IN  IF IsFence(line) THEN flushFence([more EXCEPT !.inFence = FALSE]) ELSE more
  ELSE CASE IsFence(line) -> [flush(flushTable(acc), b) EXCEPT !.inFence = TRUE, !.fence = line]
         [] isTableRow(line) ->
              LET opened == IF acc.table = <<>> THEN [flush(acc, b) EXCEPT !.caption = lastNonEmpty(acc.body)] ELSE acc
              IN  [opened EXCEPT !.table = @ \o line]
         [] atxHeading(line) ->
              LET closed == flush(flushTable(acc), b) IN [closed EXCEPT !.stack = Under(@, line)]
         [] OTHER -> [flushTable(acc) EXCEPT !.body = Append(@, line)]

markdownChunker(text, b) ==
  LET start == [stack |-> <<>>, body |-> <<>>, table |-> <<>>, caption |-> <<>>,
                fence |-> <<>>, inFence |-> FALSE, out |-> <<>>]
      read == FoldLeft(LAMBDA acc, line : ReadLine(acc, line, b), start, Lines(text))
  IN  flush(flushTable(flushFence(read)), b).out

-----------------------------------------------------------------------------
(* The chunks of a document.                                                *)

Plain(texts) == [k \in DOMAIN texts |-> [words |-> texts[k], headings |-> <<>>]]

NewChunker(cfg, text) ==
  LET b == chunkBounds(cfg)
  IN  CASE cfg.strategy = "word"     -> Plain(wordChunker(text, b))
        [] cfg.strategy = "markdown" -> markdownChunker(text, b)
        [] cfg.strategy = "sentence" -> Plain(sentenceChunker(text, b))
        [] OTHER                     -> Plain(recursiveChunker(text, b))

\* The first place at or after `from` where the words of a piece stand, as the
\* positions of its first and last word; 0 for both if there is none.
locateSpan(words, piece, from) ==
  LET at == {i \in from..(Len(words) - Len(piece) + 1) : SubSeq(words, i, i + Len(piece) - 1) = piece}
  IN  IF at = {} THEN <<0, 0>> ELSE <<Min(at), Min(at) + Len(piece) - 1>>

\* Wrong variant of chunkDoc: the search goes on from the end of the piece before.
chunkFromEnd(cfg, text) ==
  LET put(acc, p) ==
        LET span == locateSpan(Fields(text), p.words, acc.cursor)
        IN  [out |-> Append(acc.out, [words |-> p.words, headings |-> p.headings, span |-> span]),
             cursor |-> IF span[1] > 0 THEN span[2] + 1 ELSE acc.cursor]
  IN  FoldLeft(put, [out |-> <<>>, cursor |-> 1], NewChunker(cfg, text)).out

\* The search for a piece begins where the piece before was found.
chunkDoc(cfg, text) ==
  LET put(acc, p) ==
        LET span == locateSpan(Fields(text), p.words, acc.cursor)
        IN  [out |-> Append(acc.out, [words |-> p.words, headings |-> p.headings, span |-> span]),
             cursor |-> IF span[1] > 0 THEN span[1] ELSE acc.cursor]
  IN  FoldLeft(put, [out |-> <<>>, cursor |-> 1], NewChunker(cfg, text)).out

-----------------------------------------------------------------------------
(* What a cut promises, said of a text and a configuration.                 *)

\* The lines of a text as ranges of its words.
LineSpans(text) ==
  LET lines == Lines(text)
      upto[k \in 0..Len(lines)] == IF k = 0 THEN 0 ELSE upto[k - 1] + Len(lines[k])
  IN  [k \in DOMAIN lines |-> [line |-> lines[k], first |-> upto[k - 1] + 1, last |-> upto[k]]]

Fenced(lines, k) == Cardinality({j \in 1..(k - 1) : IsFence(lines[j].line)}) % 2 = 1
HeadingAt(lines, k) == atxHeading(lines[k].line) /\ ~Fenced(lines, k)
RowAt(lines, k) == isTableRow(lines[k].line) /\ ~Fenced(lines, k)

\* The headings a line stands under: those before it with none of their level or a
\* higher one between.
HeadingsOver(lines, k) ==
  LET over == {j \in 1..(k - 1) : HeadingAt(lines, j) /\
                 \A i \in (j + 1)..(k - 1) : HeadingAt(lines, i) => Level(lines[i].line) > Level(lines[j].line)}
      sorted == SetToSortSeq(over, <)
  IN  [n \in DOMAIN sorted |-> Tail(lines[sorted[n]].line)]

\* The longest run of words that a strategy does not cut.
Longest(cfg, text, b) ==
  LET runs == IF cfg.strategy = "sentence" THEN splitSentences(text) ELSE splitRecursive(text, b.target)
  IN  Max({wordCount(runs[k]) : k \in DOMAIN runs} \cup {0})

Distinct(words) == \A i, j \in DOMAIN words : words[i] = words[j] => i = j

\* Every chunk has words, stands in the text where its span says, and none begins
\* before the one before it.
Located(chunks, words) ==
  /\ \A k \in DOMAIN chunks :
       /\ chunks[k].words # <<>> /\ chunks[k].span[1] > 0
       /\ SubSeq(words, chunks[k].span[1], chunks[k].span[2]) = chunks[k].words
  /\ \A k \in 1..(Len(chunks) - 1) : chunks[k].span[1] <= chunks[k + 1].span[1]

\* In a text that repeats no word: every word of it outside the headings is in a chunk,
\* and no chunk but one cut to keep a table or a fence whole is longer than the target
\* or, when the words carried over come before a run that is not cut, than the two.
Complete(chunks, words, lines, cfg, b) ==
  LET heading(i) == cfg.strategy = "markdown" /\
                    \E k \in DOMAIN lines : HeadingAt(lines, k) /\ i \in lines[k].first..lines[k].last
      shared(k) == chunks[k].span[2] - chunks[k + 1].span[1] + 1
  IN  /\ \A i \in DOMAIN words : ~heading(i) =>
           \E k \in DOMAIN chunks : i \in chunks[k].span[1]..chunks[k].span[2]
      /\ cfg.strategy # "markdown" => \A k \in 1..(Len(chunks) - 1) : shared(k) <= b.overlap

Sized(chunks, text, cfg, b) ==
  \A k \in DOMAIN chunks :
    CASE cfg.strategy = "word" -> Len(chunks[k].words) <= b.target
      [] cfg.strategy = "markdown" -> TRUE
      [] OTHER -> Len(chunks[k].words) <= Max({b.target, b.overlap + Longest(cfg, text, b)})

\* Of a Markdown text that repeats no word: a table stays in one chunk, a fenced block
\* too, and a chunk carries the headings that the line of its last word stands under.
Structured(chunks, lines) ==
  LET within(k, c) == lines[k].first >= chunks[c].span[1] /\ lines[k].last <= chunks[c].span[2]
      block(k)     == (RowAt(lines, k) /\ RowAt(lines, k + 1)) \/ Fenced(lines, k + 1)
      lineOf(i)    == CHOOSE k \in DOMAIN lines : i \in lines[k].first..lines[k].last
  IN  /\ \A k \in 1..(Len(lines) - 1) : block(k) => \E c \in DOMAIN chunks : within(k, c) /\ within(k + 1, c)
      /\ \A c \in DOMAIN chunks : chunks[c].headings = HeadingsOver(lines, lineOf(chunks[c].span[2]))

\* A table takes the last line of prose before it as its caption, which is looked for
\* from the last piece of that prose on: it may begin before.
CaptionsFit(lines, b) ==
  \A j, k \in DOMAIN lines : j < k /\ RowAt(lines, k) => lines[j].last - lines[j].first < b.target

ChunksFit(text, cfg) ==
  LET chunks == chunkDoc(cfg, text)
      b      == chunkBounds(cfg)
      lines  == LineSpans(text)
      markdown == cfg.strategy = "markdown"
  IN  /\ Sized(chunks, text, cfg, b)
      /\ ~markdown \/ CaptionsFit(lines, b) => Located(chunks, Fields(text))
      /\ Distinct(Fields(text)) /\ (~markdown \/ CaptionsFit(lines, b)) =>
           /\ Complete(chunks, Fields(text), lines, cfg, b)
           /\ markdown => Structured(chunks, lines)
=============================================================================
