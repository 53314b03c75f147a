---------------------------- MODULE ConfigParser ----------------------------
(* The parser of config4cpp at work on a configuration: statements change the  *)
(* tree of ConfigTree, blocks nest, files include files, and an error ends the *)
(* parse where it is.  What the source says next is chosen as it is read, so   *)
(* that every source of bounded length is tried.  What an expression yields    *)
(* where it is evaluated is a parameter, given by ConfigExpressions.           *)
EXTENDS ConfigLookup, FiniteSets, SequencesExt

CONSTANTS Names, Idents,           \* components, and the names statements use
          StringExprs, ListExprs, Conditions,
          ScopeExprs,              \* string expressions for the scope of @copyFrom
          StringAt(_, _), ListAt(_, _), HoldsAt(_, _),   \* what they yield at a place: [ok, val],
                                   \* or [ok, loops] if an error or no end comes of it
          TypeAt(_, _),            \* what an expression is taken for there
          Sources, FileOf(_),      \* arguments of @include, and the file each names
          Given,                   \* files that parse is called with
          MaxTokens, MaxIncluded,  \* bounds on what is read from the first and from an included file
          Strings, Lists,          \* bounds on the values that are assigned
          Paths,                   \* names that statements and copies may write
          Initial                  \* configurations before the parse: [items, curr]

VARIABLES items, curr,    \* the configuration
          frames,         \* what is being parsed, innermost last: files, blocks, skipped blocks, copies
          included,       \* m_fileNameStack
          result,         \* of the parse: "none", "running", "ok", "error", or "looping" for ever
          started         \* the current scope when the parse began
config == <<items, curr>>
vars == <<items, curr, frames, included, result, started>>

T == INSTANCE ConfigTree
Item(type, val) == IF type = "list" THEN T!ListItem(val) ELSE T!StringItem(val)
here == [items |-> items, curr |-> curr, included |-> included]

\* entries have paths, and are variables or scopes
LegalItems(f) == DOMAIN f \subseteq Seq(Names) /\ \A p \in DOMAIN f : f[p] \in T!Variables \cup {T!Scope}

\* a scope, and those around it, are in the configuration
StandsIn(f, path) == \A n \in 1..Len(path) : T!IsScope(f, T!Upto(path, n))

ASSUME ParserAssumption ==
  /\ Idents \subseteq Seq(Names) \ {<<>>}
  /\ \A before \in Initial : LegalItems(before.items) /\ before.curr \in Seq(Names) /\ StandsIn(before.items, before.curr)
  /\ LegalItems(Fallback)
  /\ MaxTokens \in Nat /\ MaxIncluded \in Nat /\ MaxFiles \in Nat
-----------------------------------------------------------------------------
(* frames *)

File(name, budget) == [kind |-> "file", name |-> name, left |-> budget, braces |-> 0]
Opened(old) == [kind |-> "scope", old |-> old]
\* a block of an @if, parsed or skipped: whether a condition was true by now,
\* whether it is the @else, and how many blocks of the chain were parsed
Block(done, last, ran) == [kind |-> "block", done |-> done, last |-> last, ran |-> ran]
Skipped(done, last, ran) == [kind |-> "skip", done |-> done, last |-> last, ran |-> ran, depth |-> 1]
Chain(done, ran) == [kind |-> "chain", done |-> done, ran |-> ran]
\* what is listed in the other scope, and what of it is still to be copied
Copy(from, list) == [kind |-> "copy", from |-> from, list |-> list, rest |-> list]

Top == Last(frames)
Files == {i \in DOMAIN frames : frames[i].kind = "file"}
Innermost == CHOOSE i \in Files : \A j \in Files : j <= i

\* a token of the innermost file, and the braces it opens less those it closes
CanRead == result = "running" /\ frames[Innermost].left > 0
Read(braces) == [frames EXCEPT ![Innermost].left = @ - 1, ![Innermost].braces = @ + braces]
AtStatement == CanRead /\ Top.kind \in {"file", "scope", "block"}

Instead(s, frame) == Append(Front(s), frame)    \* of the innermost frame
Go(newFrames) == frames' = newFrames /\ UNCHANGED <<included, result, started>>

\* an exception leaves each ConfigParser, which takes its file off the stack
Throw ==
  /\ frames' = <<>> /\ included' = SubSeq(included, 1, Len(included) - Cardinality(Files))
  /\ result' = "error" /\ UNCHANGED started
\* the evaluation of an expression has failed, or goes on for ever: split() and
\* replace() of an empty text find it over and over again at the same place
Stops(value) ==
  IF value.loops THEN result' = "looping" /\ UNCHANGED <<frames, included, started>> ELSE Throw
-----------------------------------------------------------------------------
(* statements *)

Assign(name, op, e) ==
  /\ AtStatement
  /\ LET var == Declared(items, curr, name)
         type == TypeAt(here, e)
         value == IF type = "list" THEN ListAt(here, e) ELSE StringAt(here, e)
         new == IF op = "+=" THEN ValueOf(Lookup(items, curr, name)) \o value.val ELSE value.val
         legal == type \in {"string", "list"} /\ (op = "+=" => var.type = type)
     IN  CASE ~legal -> Throw /\ UNCHANGED config
           [] legal /\ ~value.ok -> Stops(value) /\ UNCHANGED config
           [] legal /\ value.ok /\ op = "?=" /\ IsVar(var) -> Go(Read(0)) /\ UNCHANGED config
           [] OTHER ->
                /\ Item(type, new) \in T!Variables
                /\ items' = T!Written(items, curr, name, Item(type, new)) /\ UNCHANGED curr
                /\ IF T!CanWrite(items, curr, name) THEN Go(Read(0)) ELSE Throw

OpenScope(name) ==
  /\ AtStatement
  /\ items' = T!WithScopes(items, curr, name)
  /\ IF T!Obstacles(items, curr, name) = {}
     THEN curr' = curr \o name /\ Go(Append(Read(1), Opened(curr)))
     ELSE Throw /\ UNCHANGED curr

\* mistake: a scope that ends makes the root scope the current one
CloseBraceToRoot ==
  /\ AtStatement
  /\ \/ Top.kind = "file" /\ Throw /\ UNCHANGED config
     \/ Top.kind = "scope" /\ Go(Front(Read(-1))) /\ curr' = <<>> /\ UNCHANGED items
     \/ /\ Top.kind = "block" /\ UNCHANGED config
        /\ Go(IF Top.last THEN Front(Read(-1)) ELSE Instead(Read(-1), Chain(Top.done, Top.ran)))
CloseBrace ==
  /\ AtStatement
  /\ \/ Top.kind = "file" /\ Throw /\ UNCHANGED config
     \/ Top.kind = "scope" /\ Go(Front(Read(-1))) /\ curr' = Top.old /\ UNCHANGED items
     \/ /\ Top.kind = "block" /\ UNCHANGED config
        /\ Go(IF Top.last THEN Front(Read(-1)) ELSE Instead(Read(-1), Chain(Top.done, Top.ran)))

\* mistake: the name of a file that ended stays on the stack
EndOfFileKeepsName ==
  /\ result = "running" /\ Top.kind \in {"file", "scope", "block"} /\ UNCHANGED config
  /\ IF Top.kind # "file" THEN Throw
     ELSE /\ frames' = Front(frames) /\ UNCHANGED <<included, started>>
          /\ result' = IF Len(frames) = 1 THEN "ok" ELSE "running"
\* the accept of LEX_EOF_SYM, or of a closing brace that is not there
EndOfFile ==
  /\ result = "running" /\ Top.kind \in {"file", "scope", "block"} /\ UNCHANGED config
  /\ IF Top.kind # "file" THEN Throw
     ELSE /\ frames' = Front(frames) /\ included' = Front(included) /\ UNCHANGED started
          /\ result' = IF Len(frames) = 1 THEN "ok" ELSE "running"

\* mistake: a circular include is not noticed
RefusedInScope(source) == curr # <<>>
Refused(source) == curr # <<>> \/ source \in ToSet(included)
Include(source, ifExists) ==
  /\ AtStatement /\ UNCHANGED config
  /\ LET file == FileOf(source)
         refused == Refused(source)
         opens == Opens(file, Cardinality(Files))
     IN  \/ (refused \/ (~opens /\ ~ifExists)) /\ Throw
         \/ ~refused /\ ~opens /\ ifExists /\ Go(Read(0))
         \/ /\ ~refused /\ opens
            /\ frames' = Append(Read(0), File(file, MaxIncluded)) /\ included' = Append(included, file)
            /\ UNCHANGED <<result, started>>

\* mistake: a block is parsed though an earlier one was
EnterAgain(below, cond, done, last, ran) ==
  Go(Append(below, IF cond THEN Block(TRUE, last, ran + 1) ELSE Skipped(done, last, ran)))
\* a block whose condition holds is parsed if no earlier one was
Enter(below, cond, done, last, ran) ==
  Go(Append(below, IF cond /\ ~done THEN Block(TRUE, last, ran + 1) ELSE Skipped(done \/ cond, last, ran)))
If(c) ==
  /\ AtStatement /\ UNCHANGED config
  /\ LET cond == HoldsAt(here, c)
     IN  IF cond.ok THEN Enter(Read(1), cond.val, FALSE, FALSE, 0) ELSE Stops(cond)
ElseIf(c) ==
  /\ CanRead /\ Top.kind = "chain" /\ UNCHANGED config
  /\ LET cond == HoldsAt(here, c)
     IN  IF cond.ok THEN Enter(Front(Read(1)), cond.val, Top.done, FALSE, Top.ran) ELSE Stops(cond)
Else ==
  /\ CanRead /\ Top.kind = "chain" /\ UNCHANGED config
  /\ Enter(Front(Read(1)), TRUE, Top.done, TRUE, Top.ran)
NoElse ==
  /\ result = "running" /\ Top.kind = "chain" /\ UNCHANGED config
  /\ Go(Front(frames))

\* skipToClosingBrace, one token at a time
Skip(braces) ==
  /\ CanRead /\ Top.kind = "skip" /\ UNCHANGED config
  /\ LET depth == Top.depth + braces
     IN  Go(IF depth > 0 THEN Instead(Read(braces), [Top EXCEPT !.depth = depth])
            ELSE IF Top.last THEN Front(Read(braces))
            ELSE Instead(Read(braces), Chain(Top.done, Top.ran)))
\* mistake: the end of the file does not end the skipping
SkipPastEnd == result = "running" /\ Top.kind = "skip" /\ UNCHANGED vars
SkipToEnd == result = "running" /\ Top.kind = "skip" /\ Throw /\ UNCHANGED config

\* mistake: what is inside a removed scope stays
RemoveAlone(name) ==
  /\ AtStatement /\ UNCHANGED curr
  /\ IF Len(name) = 1 /\ curr \o name \in DOMAIN items
     THEN items' = [p \in (DOMAIN items) \ {curr \o name} |-> items[p]] /\ Go(Read(0))
     ELSE Throw /\ UNCHANGED items
RemoveStmt(name) ==
  /\ AtStatement /\ UNCHANGED curr
  /\ IF Len(name) = 1 /\ curr \o name \in DOMAIN items
     THEN items' = T!Without(items, curr \o name) /\ Go(Read(0))
     ELSE Throw /\ UNCHANGED items

\* @error, and whatever the grammar does not allow
ErrorStmt == AtStatement /\ Throw /\ UNCHANGED config

Listed(from) ==
  {p \in (IF from \in DOMAIN items THEN DOMAIN items ELSE DOMAIN Fallback) : IsStrictPrefix(from, p)}
CopyFrom(e, ifExists) ==
  /\ AtStatement /\ UNCHANGED config
  /\ LET from == StringAt(here, e)
         item == RootLookup(items, from.val)
         legal == ~IsPrefix(from.val, curr)
     IN  CASE ~from.ok -> Stops(from)
           [] from.ok /\ legal /\ item.type = "scope" -> Go(Append(Read(0), Copy(from.val, Listed(from.val))))
           [] from.ok /\ legal /\ item = NoItem /\ ifExists -> Go(Read(0))
           [] OTHER -> Throw
\* mistake: the name without all its scopes
NewNameLast(from, p) == <<Last(p)>>
NewName(from, p) == SubSeq(p, Len(from) + 1, Len(p))
\* one entry of the list, scopes before what is in them
CopyEntry ==
  /\ result = "running" /\ Top.kind = "copy" /\ UNCHANGED curr
  /\ IF Top.rest = {} THEN Go(Front(frames)) /\ UNCHANGED items
     ELSE \E p \in Top.rest :
       /\ \A q \in Top.rest : ~IsStrictPrefix(q, p)
       /\ LET name == NewName(Top.from, p)
              item == RootLookup(items, p)
          IN  /\ items' = IF IsVar(item) THEN T!Written(items, curr, name, item) ELSE T!WithScopes(items, curr, name)
              /\ IF IF IsVar(item) THEN T!CanWrite(items, curr, name) ELSE T!Obstacles(items, curr, name) = {}
                 THEN Go(Instead(frames, [Top EXCEPT !.rest = @ \ {p}])) ELSE Throw
-----------------------------------------------------------------------------
Init ==
  /\ \E before \in Initial : items = before.items /\ curr = before.curr
  /\ frames = <<>> /\ included = <<>> /\ result = "none" /\ started = curr

Parse(source) ==
  /\ result = "none" /\ UNCHANGED <<config, started>>
  /\ IF Opens(source, 0)
     THEN frames' = <<File(source, MaxTokens)>> /\ included' = <<source>> /\ result' = "running"
     ELSE result' = "error" /\ UNCHANGED <<frames, included>>

Statement ==
  \/ Else \/ NoElse \/ CloseBrace \/ EndOfFile \/ ErrorStmt
  \/ CopyEntry \/ SkipToEnd \/ \E braces \in {-1, 0, 1} : Skip(braces)
  \/ \E source \in Sources, ifExists \in BOOLEAN : Include(source, ifExists)
  \/ \E c \in Conditions : If(c) \/ ElseIf(c)
  \/ \E e \in ScopeExprs, ifExists \in BOOLEAN : CopyFrom(e, ifExists)
  \/ \E name \in Idents :
       \/ OpenScope(name) \/ RemoveStmt(name)
       \/ \E op \in {"=", "?=", "+="}, e \in StringExprs \cup ListExprs : Assign(name, op, e)

\* the parse is over, or nothing comes after the expression it evaluates
Over == result \in {"ok", "error", "looping"} /\ UNCHANGED vars

Next == Statement \/ (\E source \in Given : Parse(source)) \/ Over

\* the parser is a loop over a finite source
Spec == Init /\ [][Next]_vars /\ WF_vars(Statement)
-----------------------------------------------------------------------------
\* The stack of file names is that of the parsers: popIncludedFilename finds its
\* own name on top, also when an error leaves several files at once.
FileNamesMatch ==
  /\ Len(included) = Cardinality(Files)
  /\ \A i \in Files : included[Cardinality({j \in Files : j <= i})] = frames[i].name

\* Braces are counted right: those a file has opened and not closed are its open
\* blocks and, in a block that is skipped, the ones around the next token of it.
Braced == {"scope", "block", "skip"}
BlocksOf(i) ==
  {j \in DOMAIN frames : j > i /\ frames[j].kind \in Braced /\ \A k \in Files : k <= i \/ k > j}
BracesMatch ==
  \A i \in Files :
    frames[i].braces = Cardinality(BlocksOf(i))
                       + IF i = Innermost /\ Top.kind = "skip" THEN Top.depth - 1 ELSE 0

\* Every frame is one the parser can be in, and the stack of file names and the
\* counts of braces are those of the frames.
TypeOK ==
  /\ result \in {"none", "running", "ok", "error", "looping"}
  /\ (result \in {"running", "looping"}) = (frames # <<>>)
  /\ frames # <<>> => frames[1].kind = "file"
  /\ LegalItems(items)
  /\ FileNamesMatch
  /\ BracesMatch

\* Every statement, a failing one too, changes the configuration as operations
\* on its tree do.
ImplementsTree == [][T!Next]_config

\* A parse that succeeds leaves the current scope as it found it.  One that fails
\* leaves it where the error was, in the scope the parse began in or inside of it,
\* and never in a scope that has been removed or was not made.
ScopeRestored ==
  /\ result = "ok" => curr = started
  /\ result = "error" => IsPrefix(started, curr)
  /\ StandsIn(items, curr)

\* Of the blocks of an @if at most one is parsed; with an @else exactly one.
OneBlockParsed ==
  \A i \in DOMAIN frames :
    /\ frames[i].kind \in {"block", "skip", "chain"} => frames[i].ran <= 1
    /\ frames[i].kind \in {"block", "skip"} /\ frames[i].last => frames[i].ran = 1

\* While a scope is copied, what is listed is still there (as parseCopyStmt
\* asserts at line 740), and when the copy ends every entry of the other scope is in
\* the current one with its value, unless the copy writes into the scope it reads.
CopiedTo(p) == curr \o SubSeq(p, Len(Top.from) + 1, Len(p))
CopyIsWhole ==
  result = "running" /\ Top.kind = "copy" =>
    /\ \A p \in Top.rest : RootLookup(items, p) # NoItem
    /\ Top.rest = {} =>
         \/ \E p \in Top.list : IsPrefix(Top.from, CopiedTo(p))
         \/ \A p \in Top.list : CopiedTo(p) \in DOMAIN items /\ items[CopiedTo(p)] = RootLookup(items, p)

\* An included file starts in the root scope, with no scope open around it.
IncludedAtRoot ==
  \A i \in Files : i > 1 => started = <<>> /\ \A j \in 1..(i - 1) : frames[j].kind # "scope"

\* A file that is being read is not read again inside of itself, if it is only
\* ever included under its own name: "file#" before it is another.
Respelled == {FileOf(s) : s \in {t \in Sources : FileOf(t) # t}}
NoCircularInclude ==
  \A i, j \in DOMAIN included : included[i] = included[j] => i = j \/ included[i] \in Respelled

\* Files nest as the parser promises: included at the root, and circularly only
\* under another spelling.
FilesNest == IncludedAtRoot /\ NoCircularInclude

\* The parser never reads on without end: skipping a block ends with its file, and
\* includes end with the files that can be open at once, also those of a file
\* included under another spelling of its own name, which are not refused.  What
\* can keep a parse from ending is only the evaluation of one expression, split()
\* or replace() of an empty text: that is the result "looping".
ReadingEnds == result = "running" ~> result # "running"
=============================================================================
