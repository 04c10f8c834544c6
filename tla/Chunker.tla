-------------------------------- MODULE Chunker --------------------------------
(***************************************************************************)
(* The chunker (internal/chunk/chunker.go): ChunkText cuts a text into     *)
(* windows of sentences, ChunkDocument cuts a document by headings,        *)
(* paragraphs and sentences.                                               *)
(*                                                                         *)
(* A sentence is its place, its length and whether it ends in punctuation: *)
(* the last one of a paragraph may not, and then splitSentences reads it   *)
(* and what follows it in a chunk as one sentence.  Sentences are          *)
(* different texts; what differs only in white space is the same.          *)
(***************************************************************************)
EXTENDS Integers, Sequences, FiniteSets, FiniteSetsExt, SequencesExt, LeftFolds

CONSTANTS
    MaxChars,       \* the window of ChunkText
    Overlaps,       \* overlaps tried with it
    Target,         \* targetChunkChars of ChunkDocument
    TextLens,       \* bound: lengths of the sentences of a text
    MaxSentences,   \* bound: sentences of a text
    Paragraphs,     \* paragraphs tried: sequences of [len, stop]
    MaxParas,       \* bound: paragraphs of a section
    MaxHeadings     \* bound: headings of a document

\* The engine's overlap (50 tokens) is shorter than any model's window, and the
\* harness refuses one of half its window (dispatch in main.go).
ASSUME ChunkerAssumption ==
    /\ MaxChars \in Nat /\ Target \in Nat
    /\ Overlaps \subseteq 0 .. MaxChars
    /\ MaxSentences \in Nat /\ MaxParas \in Nat /\ MaxHeadings \in Nat
    /\ TextLens \subseteq Nat
    /\ Paragraphs \subseteq Seq([len : Nat, stop : BOOLEAN])

VARIABLES
    given,      \* what was to be chunked, or NotYet
    cut         \* the chunks it gave

chunkVars == <<given, cut>>

NotYet == [kind |-> "none"]

SeqsUpTo(S, n) == UNION {[1 .. k -> S] : k \in 0 .. n}

(* A document: what stands before the first heading, and the sections. *)
Sections == SeqsUpTo(Paragraphs, MaxParas)
DocTexts == [kind : {"document"}, preamble : SeqsUpTo(Paragraphs, 1),
         sections : SeqsUpTo(Sections, MaxHeadings)]
PlainTexts == [kind : {"text"}, overlap : Overlaps,
               lens : SeqsUpTo(TextLens, MaxSentences) \ {<<>>}]

ChunkerInit ==
    /\ given = NotYet
    /\ cut = <<>>

(* Sentences with the character that joins each to the next. *)
Span(sents) == LeftFold(LAMBDA n, s : n + s.len + 1, 0, sents)

(* The length of the joined sentences. *)
Joined(sents) == IF sents = <<>> THEN 0 ELSE Span(sents) - 1

-----------------------------------------------------------------------------
(* Windows of sentences: ChunkText and sentenceWindow                      *)

(* The longest tail of the closed chunk of at most `room' characters. *)
TailWithin(cur, room) ==
    LET fits == {k \in 0 .. Len(cur) : Joined(SubSeq(cur, Len(cur) - k + 1, Len(cur))) =< room}
    IN SubSeq(cur, Len(cur) - Max(fits) + 1, Len(cur))

(* What the next chunk starts with: the last sentence, whatever its length *)
(* (sentenceWindow), or the tail that fits in `room' (ChunkText).          *)
Carry(cur, whole, room) == IF whole THEN <<Last(cur)>> ELSE TailWithin(cur, room)

(* A sentence that does not fit closes the chunk; the next one starts with *)
(* the overlap and takes the sentence even when both exceed the limit.     *)
AddSentence(acc, s, limit, whole, room) ==
    IF acc.cur # <<>> /\ Joined(Append(acc.cur, s)) > limit
    THEN [out |-> Append(acc.out, acc.cur), cur |-> Append(Carry(acc.cur, whole, room), s)]
    ELSE [acc EXCEPT !.cur = Append(@, s)]

NothingCut == [out |-> <<>>, cur |-> <<>>]

Cutting(sents, limit, whole, room) ==
    LeftFold(LAMBDA acc, s : AddSentence(acc, s, limit, whole, room), NothingCut, sents)

(* The closed chunks and the one that is open at the end. *)
Chunks(acc) == Append(acc.out, acc.cur)

Windows(sents, limit, whole, room) == Chunks(Cutting(sents, limit, whole, room))

TextOf(in) == [i \in DOMAIN in.lens |-> [at |-> <<1, 1, i>>, len |-> in.lens[i], stop |-> TRUE]]

ChunkText ==
    /\ given = NotYet
    /\ \E in \in PlainTexts :
         /\ given' = in
         /\ cut' = IF Joined(TextOf(in)) =< MaxChars THEN <<TextOf(in)>>
                   ELSE Windows(TextOf(in), MaxChars, FALSE, in.overlap)

-----------------------------------------------------------------------------
(* Documents                                                               *)

Para(p, s, k) == [i \in DOMAIN p |-> [at |-> <<s, k, i>>, len |-> p[i].len, stop |-> p[i].stop]]

(* The paragraphs of a section; the preamble is section 0. *)
Paras(sec, s) == [k \in DOMAIN sec |-> Para(sec[k], s, k)]

(* lastSentence: back to the last sentence before it that ends in          *)
(* punctuation.                                                            *)
LastSentence(text) ==
    LET ends == {i \in 1 .. Len(text) - 1 : text[i].stop}
    IN SubSeq(text, (IF ends = {} THEN 0 ELSE Max(ends)) + 1, Len(text))

(* The last sentence of the previous chunk is put in front, unless it is   *)
(* there already.                                                          *)
Overlapped(prev, text) ==
    IF \E i \in 0 .. Len(text) - Len(prev) : SubSeq(text, i + 1, i + Len(prev)) = prev
    THEN text ELSE prev \o text

(* The chunks cs after out, the overlap in front of the first of them. *)
Attach(out, prev, cs) == out \o [cs EXCEPT ![1] = Overlapped(prev, @)]

(* Mutant: the paragraphs collected so far are forgotten when a long one   *)
(* follows.                                                                *)
FlushForgets(acc) ==
    [acc EXCEPT !.cur = <<>>, !.out = IF Len(acc.cur) = 1 THEN Attach(@, acc.prev, acc.cur) ELSE @]

(* flush: the collected paragraphs become a chunk. *)
Flush(acc) ==
    IF acc.cur = <<>> THEN acc
    ELSE [acc EXCEPT !.out = Attach(@, acc.prev, <<Concat(acc.cur)>>), !.cur = <<>>]

(* prevLast after a chunk. *)
Remember(acc) == IF acc.out = <<>> THEN acc ELSE [acc EXCEPT !.prev = LastSentence(Last(acc.out))]

(* The length of paragraphs joined by blank lines. *)
JoinedParas(ps) == LeftFold(LAMBDA n, p : n + Joined(p) + 2, 0, ps) - 2

(* A paragraph longer than the target is cut into sentence windows, the    *)
(* others are collected up to the target.                                  *)
AddLong(acc, para) ==
    Remember([acc EXCEPT !.out = Attach(@, acc.prev, Windows(para, Target, TRUE, 0))])

Collect(acc, para) == [acc EXCEPT !.cur = Append(@, para)]

AddPara(acc, para) ==
    IF Joined(para) > Target THEN AddLong(Flush(acc), para)
    ELSE IF acc.cur = <<>> \/ JoinedParas(Append(acc.cur, para)) =< Target THEN Collect(acc, para)
    ELSE Collect(Remember(Flush(acc)), para)

NoChunk == [out |-> <<>>, cur |-> <<>>, prev |-> <<>>]

Sectioning(paras) == LeftFold(AddPara, NoChunk, paras)

ChunkSection(paras) == Flush(Sectioning(paras)).out

(* The first chunk of a section starts with the last sentence of the       *)
(* section before it that had a chunk.                                     *)
AddSection(acc, paras) ==
    IF ChunkSection(paras) = <<>> THEN acc
    ELSE Remember([acc EXCEPT !.out = Attach(@, acc.prev, ChunkSection(paras))])

ChunkSections(secs) == LeftFold(AddSection, NoChunk, secs).out

Body(in) == [s \in DOMAIN in.sections |-> Paras(in.sections[s], s)]

WholeDoc(in) == Concat(Paras(in.preamble, 0)) \o Concat(Concat(Body(in)))

(* With headings, only what follows one is chunked.  A document without a  *)
(* chunk is stored as one (storeChunksForMemory).                          *)
ChunkDocument ==
    /\ given = NotYet
    /\ \E in \in DocTexts :
         LET cs == IF in.sections = <<>> THEN ChunkSection(Paras(in.preamble, 0))
                   ELSE ChunkSections(Body(in))
         IN /\ given' = in
            /\ cut' = IF cs = <<>> THEN <<WholeDoc(in)>> ELSE cs

ChunkerNext == ChunkText \/ ChunkDocument

ChunkerSpec == ChunkerInit /\ [][ChunkerNext]_chunkVars

-----------------------------------------------------------------------------

Chunked(k) == given.kind = k

(* The sentences of a text that a chunk of it begins and ends with. *)
From(c) == Head(c).at[3]
To(c) == Last(c).at[3]

IsStretch(c, text) == c = SubSeq(text, From(c), To(c))

(* d goes on where c ends, further than c, and repeats no more than room. *)
Follows(c, d, text, room) ==
    /\ From(d) \in From(c) .. To(c) + 1
    /\ To(c) < To(d)
    /\ Joined(SubSeq(text, From(d), To(c))) =< room

(* ChunkText loses, repeats and reorders nothing but the overlap: every    *)
(* chunk is a stretch of the text, the stretches reach from its beginning  *)
(* to its end without a gap, each goes further than the one before, and    *)
(* what two share fits the overlap.  A chunk exceeds the window only by    *)
(* its last sentence.                                                      *)
TextCovered ==
    Chunked("text") =>
      LET text == TextOf(given)
      IN /\ \A k \in DOMAIN cut : IsStretch(cut[k], text)
         /\ From(cut[1]) = 1 /\ To(Last(cut)) = Len(text)
         /\ \A k \in 1 .. Len(cut) - 1 : Follows(cut[k], cut[k + 1], text, given.overlap)
         /\ \A k \in DOMAIN cut : Joined(Front(cut[k])) =< MaxChars

(* What a chunk has that did not stand in the chunk before it. *)
News(cs) == [k \in DOMAIN cs |-> IF k = 1 THEN cs[1] ELSE Without(cs[k], Range(cs[k - 1]))]

(* What follows a heading is chunked in order and completely: leaving out  *)
(* what stood in the chunk before, the chunks give back the sections.      *)
SectionsCovered ==
    Chunked("document") =>
      LET body == IF given.sections = <<>> THEN Paras(given.preamble, 0)
                  ELSE Concat(Body(given))
      IN body # <<>> => Concat(News(cut)) = Concat(body)

(* Every text is cut into chunks that give it back. *)
ChunksCover == TextCovered /\ SectionsCovered

(* "chunks are produced from the full body so semantic recall stays        *)
(* grounded in the original text" (internal/search/engine.go).             *)
WholeTextChunked ==
    Chunked("document") => Range(WholeDoc(given)) = UNION {Range(cut[k]) : k \in DOMAIN cut}

(* "so no chunk exceeds the model limit". *)
NoChunkExceeds == Chunked("text") => \A k \in DOMAIN cut : Joined(cut[k]) =< MaxChars
=============================================================================
