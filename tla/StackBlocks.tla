---------------------------- MODULE StackBlocks ----------------------------
(***************************************************************************)
(* parseStackBlocks of internal/debugadmin/http_server.go, which divides   *)
(* the backtraces that a debugger prints among its threads, and the pages  *)
(* made of them.  A text is a sequence of lines that are told apart by     *)
(* their numbers; what a line looks like is its kind.                      *)
(***************************************************************************)
EXTENDS Integers, Sequences

\* "Thread ...", the same of a ThreadPool worker, "#...", anything else.
Headers == {"thread", "worker"}
LineKinds == Headers \cup {"frame", "detail", "blank"}

\* A stackThreadBlock, and no block.
Blocks == [header : Nat, frames : Seq(Nat), extra : Seq(Nat)]
NoBlock == [header |-> 0, frames |-> <<>>, extra |-> <<>>]
ParseStates == [threads : Seq(Blocks), current : Blocks, misc : Seq(Nat)]

\* flush(): the current block is complete.
Flush(state) ==
    IF state.current = NoBlock THEN state
    ELSE [state EXCEPT !.threads = Append(@, state.current), !.current = NoBlock]

\* One line, in its turn.
ParseLine(state, line, kind) ==
    CASE kind = "blank" -> state
      [] kind \in Headers -> [Flush(state) EXCEPT !.current.header = line]
      [] kind \notin Headers /\ kind # "blank" /\ state.current = NoBlock ->
             [state EXCEPT !.misc = Append(@, line)]
      [] kind = "frame" /\ state.current # NoBlock ->
             [state EXCEPT !.current.frames = Append(@, line)]
      [] kind = "detail" /\ state.current # NoBlock ->
             [state EXCEPT !.current.extra = Append(@, line)]

\* The elements of s at the places in P, in their order.
At(s, P) ==
    LET upTo[i \in 0..Len(s)] ==
            IF i = 0 THEN <<>>
            ELSE IF i \in P THEN Append(upTo[i - 1], s[i]) ELSE upTo[i - 1]
    IN upTo[Len(s)]

\* The lines in their order, from no block.
ParseLines(lines, kind) ==
    LET parsed[i \in 0..Len(lines)] ==
            IF i = 0 THEN [threads |-> <<>>, current |-> NoBlock, misc |-> <<>>]
            ELSE LET next[state \in ParseStates] == ParseLine(state, lines[i], kind[lines[i]])
                 IN next[parsed[i - 1]]
    IN parsed[Len(lines)]

\* Mutant of parseStackBlocks: the last thread is not flushed.
parseStackBlocksUnflushed(lines, kind) ==
    LET parsed == ParseLines(lines, kind)
    IN [threads |-> parsed.threads, misc |-> parsed.misc]

\* The workers of the thread pool come first; sort.SliceStable keeps the order
\* of the others, and theirs.
parseStackBlocks(lines, kind) ==
    LET parsed == Flush(ParseLines(lines, kind))
        workers == {i \in 1..Len(parsed.threads) : kind[parsed.threads[i].header] = "worker"}
        others == (1..Len(parsed.threads)) \ workers
    IN [threads |-> At(parsed.threads, workers) \o At(parsed.threads, others),
        misc |-> parsed.misc]

-----------------------------------------------------------------------------
(* What a reader of the page expects, by the places of the lines.          *)

PlacesOf(lines, kind, kinds) == {i \in 1..Len(lines) : kind[lines[i]] \in kinds}

\* The header at place h, or for 0 none at all, is the last up to place i.
IsLastHeader(lines, kind, h, i) ==
    /\ h \in {0} \cup PlacesOf(lines, kind, Headers) /\ h <= i
    /\ \A k \in h + 1..i : kind[lines[k]] \notin Headers

\* The lines of some kinds that stand under the header at place h, or 0.
Under(lines, kind, h, kinds) ==
    At(lines, {i \in PlacesOf(lines, kind, kinds) : IsLastHeader(lines, kind, h, i)})

ThreadAt(lines, kind, h) ==
    [header |-> lines[h],
     frames |-> Under(lines, kind, h, {"frame"}),
     extra |-> Under(lines, kind, h, {"detail"})]

ShowsAll(parsed, lines, kind) ==
    LET threads == [h \in 1..Len(lines) |-> ThreadAt(lines, kind, h)]
    IN /\ parsed.threads = At(threads, PlacesOf(lines, kind, {"worker"}))
                               \o At(threads, PlacesOf(lines, kind, {"thread"}))
       /\ parsed.misc = Under(lines, kind, 0, {"frame", "detail"})
=============================================================================
