-------------------------------- MODULE Sse --------------------------------
(***************************************************************************)
(* The server-sent event decoder of src/src/provider/sse.rs and the bytes  *)
(* it is fed.                                                              *)
(*                                                                         *)
(* The bytes of a stream are a sequence of atoms: the two line breaks, a   *)
(* whole "event:", comment or unknown line, and the two halves of a        *)
(* "data:" line, so that a chunk may end inside the line that matters.  A  *)
(* payload that is wide has a character of several bytes across its halves.*)
(***************************************************************************)
EXTENDS Naturals, Sequences, SequencesExt

NoName == "none"

Lf == [a |-> "lf"]
Cr == [a |-> "cr"]
Comment == [a |-> "comment"]
OtherField == [a |-> "other"]
EventField(name) == [a |-> "event", name |-> name]
Half(payload, n) == [a |-> "data", of |-> payload, half |-> n, broken |-> FALSE]

\* String::from_utf8_lossy of one chunk: the two parts of a character that the
\* chunk boundary separates are replaced, each on its own.
Lossy(chunk) ==
  [i \in DOMAIN chunk |->
     IF /\ chunk[i].a = "data" /\ chunk[i].of.wide
        /\ (i = 1 /\ chunk[i].half = 2) \/ (i = Len(chunk) /\ chunk[i].half = 1)
     THEN [chunk[i] EXCEPT !.broken = TRUE]
     ELSE chunk[i]]

NewDecoder == [buffer |-> <<>>, name |-> NoName, data |-> <<>>]

\* line(): what one line does, and the event it completes, if any.
Line(d, line) ==
  IF line = <<>>
  THEN IF d.data = <<>> /\ d.name = NoName
       THEN [decoder |-> d, events |-> <<>>]
       ELSE [decoder |-> [d EXCEPT !.name = NoName, !.data = <<>>],
             events |-> <<[name |-> d.name, data |-> d.data]>>]
  ELSE [decoder |-> CASE line[1].a = "event" -> [d EXCEPT !.name = line[1].name]
                      [] line[1].a = "data" -> [d EXCEPT !.data = Append(@, line)]
                      [] OTHER -> d,
        events |-> <<>>]

TrimCr(line) == IF line # <<>> /\ Last(line) = Cr THEN Front(line) ELSE line

\* Mutant of Buffered: what was left over of the chunk before is dropped.
Unbuffered(d, chunk) == chunk
\* The chunk goes behind what was left over.
Buffered(d, chunk) == d.buffer \o chunk

\* push(): every line that is complete is taken.
Push(d, chunk) ==
  LET feed(at, atom) ==
        IF atom # Lf THEN [at EXCEPT !.decoder.buffer = Append(@, atom)]
        ELSE LET done == Line([at.decoder EXCEPT !.buffer = <<>>], TrimCr(at.decoder.buffer))
             IN  [decoder |-> done.decoder, events |-> at.events \o done.events]
  IN  FoldLeft(feed, [decoder |-> [d EXCEPT !.buffer = <<>>], events |-> <<>>], Buffered(d, chunk))

\* The JSON value of an event's data, if it is one: exactly the two halves of
\* one payload.  A replaced character leaves it JSON, with another text in it.
IsJson(event) ==
  /\ Len(event.data) = 1 /\ Len(event.data[1]) = 2
  /\ event.data[1][1].half = 1 /\ event.data[1][2].half = 2
  /\ event.data[1][1].of = event.data[1][2].of
Json(event) ==
  LET line == event.data[1] IN
  IF line[1].broken \/ line[2].broken THEN [line[1].of EXCEPT !.intact = FALSE]
  ELSE line[1].of
=============================================================================
