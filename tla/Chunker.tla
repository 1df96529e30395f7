------------------------------- MODULE Chunker -------------------------------
(* SimpleChunker, packages/ai/src/simple-chunker.ts, as a function of the    *)
(* document and the configuration.                                           *)
(*                                                                           *)
(* A document is the sequence of its blocks as the code takes them: lines    *)
(* that HEADER_RE matches (level 1..6) and paragraphs (level 0), each with   *)
(* the length of its text.  The kind of a block, a text, a table or a fenced *)
(* code block, is not read here, nor are strategy, preserveHeaders and       *)
(* atomicBlocks of the configuration.  A text is referred to by its block    *)
(* and an interval of characters.                                            *)
EXTENDS Integers, SequencesExt, Selections

ValidConfig(config) ==
  config.chunkSize > 0 /\ config.parentSize > 0 /\ config.overlap >= 0

\* Mutant: a header closes only the headers below its level.
PushLoosely(doc, stack, i) ==
  Append(Only(stack, {h \in ToSet(stack) : doc[h].level <= doc[i].level}), i)

\* The open headers: a header closes those of its level and below.  (Levels
\* grow along the stack, so that these are the last ones.)
Push(doc, stack, i) ==
  Append(Only(stack, {h \in ToSet(stack) : doc[h].level < doc[i].level}), i)

\* Before the first header there is a section only if it has a body; its path
\* is empty here, and the document's title in the code.
Flush(acc) ==
  IF acc.header = 0 /\ acc.body = <<>> THEN acc.sections
  ELSE Append(acc.sections, [path |-> acc.stack, header |-> acc.header, body |-> acc.body])

\* One block: a header closes the section, a paragraph joins its body.
Read(doc, acc, i) ==
  IF doc[i].level = 0 THEN [acc EXCEPT !.body = Append(@, i)]
  ELSE [stack |-> Push(doc, acc.stack, i), header |-> i, body |-> <<>>,
        sections |-> Flush(acc)]

SplitMarkdownSections(doc) ==
  LET acc[n \in 0..Len(doc)] ==
        IF n = 0 THEN [stack |-> <<>>, header |-> 0, body |-> <<>>, sections |-> <<>>]
        ELSE Read(doc, acc[n - 1], n)
  IN  Flush(acc[Len(doc)])

\* The header's line and its newline.
HeaderLen(doc, header) == IF header = 0 THEN 0 ELSE doc[header].size + 1

\* One paragraph: it joins the current bucket, two characters behind the last,
\* or opens the next one; a first paragraph is taken whatever its length.
Take(doc, headerLen, parentSize, acc, p) ==
  LET sep == IF acc.current = <<>> THEN 0 ELSE 2 IN
  IF acc.current # <<>> /\ acc.len + sep + doc[p].size > parentSize
  THEN [groups |-> Append(acc.groups, acc.current), current |-> <<p>>,
        len |-> headerLen + doc[p].size]
  ELSE [acc EXCEPT !.current = Append(@, p), !.len = @ + sep + doc[p].size]

\* Buckets of at most parentSize characters.
GroupParagraphs(doc, section, parentSize) ==
  LET headerLen == HeaderLen(doc, section.header)
      acc[n \in 0..Len(section.body)] ==
        IF n = 0 THEN [groups |-> <<>>, current |-> <<>>, len |-> headerLen]
        ELSE Take(doc, headerLen, parentSize, acc[n - 1], section.body[n])
      last == acc[Len(section.body)] IN
  Append(last.groups, last.current)

\* Mutant: the last window is the one that starts at the end or behind it.
SplitWithoutOverlapTail(len, size, overlap) ==
  LET step == IF size - overlap > 1 THEN size - overlap ELSE 1 IN
  IF len <= size THEN <<[from |-> 0, to |-> len]>>
  ELSE [n \in 1..(len \div step) |->
          [from |-> (n - 1) * step,
           to   |-> IF (n - 1) * step + size < len THEN (n - 1) * step + size ELSE len]]

\* Windows of size characters every step characters, up to the first that
\* reaches the end.
SplitWithOverlap(len, size, overlap) ==
  LET step == IF size - overlap > 1 THEN size - overlap ELSE 1
      last == CHOOSE n \in 1..len : (n - 1) * step + size >= len
                /\ \A m \in 1..(n - 1) : (m - 1) * step + size < len IN
  IF len <= size THEN <<[from |-> 0, to |-> len]>>
  ELSE [n \in 1..last |->
          [from |-> (n - 1) * step,
           to   |-> IF (n - 1) * step + size < len THEN (n - 1) * step + size ELSE len]]

\* The children of a group: the windows of its paragraphs, in order.
Windows(doc, block, config) ==
  LET windows == SplitWithOverlap(doc[block].size, config.chunkSize, config.overlap) IN
  [n \in DOMAIN windows |-> [block |-> block, from |-> windows[n].from, to |-> windows[n].to]]

Children(doc, group, config) ==
  Flat([i \in DOMAIN group |-> Windows(doc, group[i], config)])

\* The parents of a section.
Parents(doc, section, config) ==
  LET groups == GroupParagraphs(doc, section, config.parentSize) IN
  [g \in DOMAIN groups |->
     [path |-> section.path, header |-> section.header, group |-> groups[g],
      children |-> Children(doc, groups[g], config)]]

\* The parents in order; the id of a parent is its place, that of a child its
\* parent's and its own.
Chunk(doc, config) ==
  LET sections == SplitMarkdownSections(doc) IN
  Flat([s \in DOMAIN sections |-> Parents(doc, sections[s], config)])
=============================================================================
