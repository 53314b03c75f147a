------------------------------- MODULE Schema -------------------------------
(* The schema validator of config4cpp: parseSchema turns schema items into     *)
(* rules, and keeps the @typedef types of earlier schemas; validate compares   *)
(* the entries of a configuration with the rules.  A name is the sequence of   *)
(* its components; an entry u of UidForms is "uid-<digits>-..." and UidForms   *)
(* gives the "uid-..." of the rules for it.                                    *)
EXTENDS SchemaTypes

CONSTANTS Items,       \* schema items
          MaxItems,    \* bound on the items of a schema
          MaxTypedefs, \* bound on the @typedef types ever registered
          UidForms,
          Configs,     \* configurations to validate
          Locals,      \* names of scopes to validate
          Texts, Defaults   \* texts to convert, and default values to look up

VARIABLES phase,       \* "none", "parsing", "ready" or "failed"
          given,       \* the items parsed since parseSchema was called
          idRules, ignoreRules

vars == <<types, defs, typesMax, sorted, phase, given, idRules, ignoreRules>>

UnexpandOne(c) == IF c \in DOMAIN UidForms THEN UidForms[c] ELSE c
Unexpanded(name) == [i \in DOMAIN name |-> UnexpandOne(name[i])]
IsUid(c) == c \in DOMAIN UidForms \cup {UidForms[u] : u \in DOMAIN UidForms}

Precedes(p, q) ==
  \/ \E i \in DOMAIN p : i \in DOMAIN q /\ Rank[p[i]] < Rank[q[i]] /\ \A j \in 1..(i - 1) : p[j] = q[j]
  \/ Len(p) < Len(q) /\ \A j \in DOMAIN p : p[j] = q[j]
RulePrecedes(r, s) == Precedes(r.name, s.name)
-----------------------------------------------------------------------------
(* parseSchema.  An item that is malformed breaks off "early", before or right *)
(* after its first name, or "late", in its arguments.                          *)
Start(now) ==
  /\ given' = <<>> /\ phase' = now
  /\ types' = SortSeq(types, TypePrecedes) /\ sorted' = TRUE /\ UNCHANGED <<defs, typesMax>>
\* mistake: reset forgets the ignore rules
BeginSchemaKeepsIgnored ==
  /\ phase # "parsing"
  /\ idRules' = <<>> /\ UNCHANGED ignoreRules
  /\ Start("parsing")
BeginSchema ==
  /\ phase # "parsing"
  /\ idRules' = <<>> /\ ignoreRules' = <<>>
  /\ Start("parsing")

\* parseIdRule: how far it gets, what the rule holds by then, and whether it throws
EmptyRule == [name |-> <<>>, optional |-> TRUE, type |-> "", args |-> <<>>]
NamedRule(item) == [EmptyRule EXCEPT !.name = item.name, !.optional = item.optional]
IdRuleThrows(item) ==
  \/ item.broken # "no"
  \/ ~item.optional /\ IsUid(item.name[Len(item.name)])
  \/ ~FindType(item.type)
  \/ ~CallCheckRule(item.type, item.args)
ParseIdRule(item) ==
  IF item.broken = "early" \/ (~item.optional /\ IsUid(item.name[Len(item.name)])) THEN NamedRule(item)
  ELSE IF ~FindType(item.type) THEN [NamedRule(item) EXCEPT !.type = item.type]
  ELSE [NamedRule(item) EXCEPT !.type = item.type, !.args = item.args]

IdRule(item) ==
  /\ item.kind = "id"
  /\ idRules' = Append(idRules, ParseIdRule(item))
  /\ phase' = IF IdRuleThrows(item) THEN "failed" ELSE "parsing"
  /\ UNCHANGED <<types, defs, typesMax, sorted, ignoreRules>>

IgnoreRule(item) ==
  /\ item.kind = "ignore"
  /\ ignoreRules' = Append(ignoreRules, [sym |-> item.sym, name |-> item.name])
  /\ phase' = IF item.broken # "no" THEN "failed" ELSE "parsing"
  /\ UNCHANGED <<types, defs, typesMax, sorted, idRules>>

TypeDef(item) ==
  /\ item.kind = "typedef" /\ UNCHANGED <<idRules, ignoreRules>>
  /\ IF item.broken = "no" /\ FindType(item.base) /\ CallCheckRule(item.base, item.args) /\ CanRegister(item.name)
     THEN RegisterTypedef(item.name, [base |-> item.base, args |-> item.args]) /\ UNCHANGED phase
     ELSE phase' = "failed" /\ UNCHANGED <<types, defs, typesMax, sorted>>

\* the rules are sorted, and two for one name are an error
EndSchema ==
  /\ phase = "parsing"
  /\ idRules' = SortSeq(idRules, RulePrecedes)
  /\ phase' = IF \E i \in 2..Len(idRules) : idRules'[i - 1].name = idRules'[i].name THEN "failed" ELSE "ready"
  /\ UNCHANGED <<types, defs, typesMax, sorted, given, ignoreRules>>
-----------------------------------------------------------------------------
(* validate.  A configuration maps the path of each entry to its item.         *)
TypeIn(cfg, path) == IF path \in DOMAIN cfg THEN cfg[path].type ELSE "none"
ItemIn(cfg, path) == IF path \in DOMAIN cfg THEN cfg[path] ELSE [type |-> "none"]
Rest(name, n) == SubSeq(name, n + 1, Len(name))

\* mistake: the search ends before the last rule
FindIdRuleButLast(name) ==
  BSearch([i \in 1..(Len(idRules) - 1) |-> idRules[i].name], name, Precedes)
FindIdRule(name) == BSearch([i \in DOMAIN idRules |-> idRules[i].name], name, Precedes)

\* the entry `name' of the scope to validate; its type is asked for in `scope',
\* which is that scope without its local name: so it may be that of another entry
Ignores(rule, cfg, scope, name) ==
  LET un == Unexpanded(name)
      after == Rest(un, Len(rule.name))
      type == TypeIn(cfg, scope \o name)
  IN  /\ IsStrictPrefix(rule.name, un)
      /\ \/ rule.sym = "everything"
         \/ rule.sym = "variables" /\ Len(after) = 1 /\ type \in {"string", "list"}
         \/ rule.sym = "scopes" /\ (Len(after) > 1 \/ type = "scope")
ShouldIgnore(cfg, scope, name) == \E i \in DOMAIN ignoreRules : Ignores(ignoreRules[i], cfg, scope, name)

EntryOutcome(cfg, scope, local, name) ==
  LET i == FindIdRule(Unexpanded(name))
  IN  IF ShouldIgnore(cfg, scope, name) THEN "ok"
      ELSE IF i = 0 THEN "error"
      ELSE IF ~FindType(idRules[i].type) THEN "abort"
      ELSE CallValidate(idRules[i].type, ItemIn(cfg, scope \o local \o name), idRules[i].args)

\* mistake: only the first of the scopes that match is looked at
RequiredUidOutcomeFirst(cfg, full, name) ==
  LET last == name[Len(name)]
      scopes == {p \in DOMAIN cfg : cfg[p].type = "scope" /\ Unexpanded(p) = full \o Front(name)}
  IN  If(Len(name) = 1 \/ IsUid(last) \/ scopes = {} \/ \E p \in scopes : TypeIn(cfg, Append(p, last)) # "none")
\* validateRequiredUidEntry: in every scope the rule's scope stands for
RequiredUidOutcome(cfg, full, name) ==
  LET last == name[Len(name)]
      scopes == {p \in DOMAIN cfg : cfg[p].type = "scope" /\ Unexpanded(p) = full \o Front(name)}
  IN  If(Len(name) = 1 \/ IsUid(last) \/ \A p \in scopes : TypeIn(cfg, Append(p, last)) # "none")
ForceModes == {"doNotForce", "forceOptional", "forceRequired"}
ForceModeOutcome(cfg, full, mode) ==
  First([i \in DOMAIN idRules |->
    LET name == idRules[i].name
    IN  IF mode = "forceOptional" \/ (mode = "doNotForce" /\ idRules[i].optional) THEN "ok"
        ELSE IF \E j \in DOMAIN name : IsUid(name[j]) THEN RequiredUidOutcome(cfg, full, name)
        ELSE If(TypeIn(cfg, full \o name) # "none")])

\* listLocallyScopedNames
Listed(cfg, full, mask, recursive) ==
  {Rest(p, Len(full)) : p \in {q \in DOMAIN cfg :
     IsStrictPrefix(full, q) /\ (recursive \/ Len(q) = Len(full) + 1) /\ cfg[q].type \in mask}}

Validate(cfg, scope, local, mask, recursive, mode) ==
  LET full == scope \o local
      names == SetToSortSeq(Listed(cfg, full, mask, recursive), Precedes)
  IN  IF full # <<>> /\ TypeIn(cfg, full) # "scope" THEN "error"
      ELSE First([i \in DOMAIN names |-> EntryOutcome(cfg, scope, local, names[i])]
                 \o <<ForceModeOutcome(cfg, full, mode)>>)
-----------------------------------------------------------------------------
Init == TypesInit /\ phase = "none" /\ given = <<>> /\ idRules = <<>> /\ ignoreRules = <<>>

ParseItem(item) ==
  /\ phase = "parsing" /\ Len(given) < MaxItems
  /\ item.kind = "typedef" => Cardinality(DOMAIN defs) < MaxTypedefs
  /\ given' = Append(given, item)
  /\ IdRule(item) \/ IgnoreRule(item) \/ TypeDef(item)

Next == BeginSchema \/ EndSchema \/ \E item \in Items : ParseItem(item)
Spec == Init /\ [][Next]_vars
-----------------------------------------------------------------------------
TypeNames == ToSet(BuiltinTypes) \cup DOMAIN defs

\* The searches find exactly what is there: a type after every registration, a
\* rule when the schema has been parsed, whose names are different.
SearchesFind ==
  /\ \A t \in DOMAIN Rank : FindType(t) <=> t \in TypeNames
  /\ phase = "ready" =>
       /\ \A i, j \in DOMAIN idRules : idRules[i].name = idRules[j].name => i = j
       /\ \A i \in DOMAIN idRules : FindIdRule(idRules[i].name) = i
       /\ \A cfg \in Configs : \A p \in DOMAIN cfg :
            FindIdRule(Unexpanded(p)) # 0 <=> \E i \in DOMAIN idRules : idRules[i].name = Unexpanded(p)

\* The array of types has each type once and room for them, and is searched right.
TypeOK ==
  /\ ToSet(types) = TypeNames /\ Len(types) = Cardinality(TypeNames) /\ Len(types) <= typesMax
  /\ phase \in {"none", "parsing", "ready", "failed"}
  /\ Len(idRules) + Len(ignoreRules) <= Len(given) /\ ToSet(given) \subseteq Items
  /\ SearchesFind

\* A schema that was accepted consists of its own rules, whole, whatever was
\* parsed before it and whether that failed.
RulesOf(kind) == {item \in ToSet(given) : item.kind = kind}
AcceptedIsWhole ==
    /\ ToSet(idRules) = {[name |-> item.name, optional |-> item.optional, type |-> item.type, args |-> item.args]
                         : item \in RulesOf("id")}
    /\ ToSet(ignoreRules) = {[sym |-> item.sym, name |-> item.name] : item \in RulesOf("ignore")}
    /\ \A item \in RulesOf("typedef") : defs[item.name] = [base |-> item.base, args |-> item.args]

\* Schemas parsed one after the other do not disturb each other: each one that is
\* accepted is its own, and a type keeps its meaning, so that rules that were
\* checked against it stay checked.
SchemaIsItsOwn ==
  /\ [](phase = "ready" => AcceptedIsWhole)
  /\ [][\A t \in DOMAIN defs : t \in DOMAIN defs' /\ defs'[t] = defs[t]]_vars

(* What a schema means.  The type a rule names, @typedef types resolved, and    *)
(* its arguments; an entry belongs to it when the lookup of that type yields a *)
(* value of the range.                                                         *)
RECURSIVE Meaning(_, _)
Meaning(t, args) == IF t \in DOMAIN defs THEN Meaning(defs[t].base, defs[t].args) ELSE [type |-> t, args |-> args]
Infinity == MaxInt
Extended(n) == IF n = -1 THEN Infinity ELSE n
InClosed(r, args, Convert(_), Number(_)) ==
  /\ r.ends = "value"
  /\ args # <<>> => /\ Number(Convert(args[1]).val) <= Number(r.val)
                     /\ Number(r.val) <= Number(Convert(args[2]).val)
IsDuration(r, args, Convert(_)) == InClosed(r, args, Convert, Extended)
Same(n) == n
BelongsString(t, item, args) ==
  CASE t = "boolean" -> LookupBoolean(item).ends = "value"
    [] t = "enum" -> LookupEnum(item, [w \in ToSet(Words(args)) |-> 0]).ends = "value"
    [] t = "int" -> InClosed(LookupInt(item), args, StringToInt, Same)
    [] t = "float" -> InClosed(LookupFloat(item), args, StringToFloat, Twice)
    [] t = "string" -> /\ LookupString(item).ends = "value"
                       /\ args # <<>> => Length(item.val) \in args[1][1].int..args[2][1].int
    [] t = "intWithUnits" -> LookupIntWithUnits(item, Words(args)).ends = "value"
    [] t = "floatWithUnits" -> LookupFloatWithUnits(item, Words(args)).ends = "value"
    [] t = "unitsWithInt" -> LookupUnitsWithInt(item, Words(args)).ends = "value"
    [] t = "unitsWithFloat" -> LookupUnitsWithFloat(item, Words(args)).ends = "value"
    [] t = "durationMicroseconds" -> IsDuration(LookupDurationMicroseconds(item), args, StringToDurationMicroseconds)
    [] t = "durationMilliseconds" -> IsDuration(LookupDurationMilliseconds(item), args, StringToDurationMilliseconds)
    [] t = "durationSeconds" -> IsDuration(LookupDurationSeconds(item), args, StringToDurationSeconds)
    [] t = "memorySizeBytes" -> InClosed(LookupMemorySizeBytes(item), args, StringToMemorySizeBytes, Same)
    [] t = "memorySizeKB" -> InClosed(LookupMemorySizeKB(item), args, StringToMemorySizeKB, Same)
    [] t = "memorySizeMB" -> InClosed(LookupMemorySizeMB(item), args, StringToMemorySizeMB, Same)
BelongsElement(type, s) ==
  LET m == Meaning(type, <<>>) IN BelongsString(m.type, [type |-> "string", val |-> s], m.args)
Belongs(t, item, targs) ==
  LET m == Meaning(t, targs)
      list == item.list
      types_ == [c \in 1..(Len(m.args) \div 2) |-> TypeName(m.args[2 * c - 1])]
  IN  CASE m.type = "scope" -> item.type = "scope"
        [] m.type = "list" -> item.type = "list" /\ \A i \in DOMAIN list : BelongsElement(TypeName(m.args[1]), list[i])
        [] m.type \in {"table", "tuple"} ->
             /\ item.type = "list"
             /\ \E rows \in IF m.type = "tuple" THEN {1} ELSE 0..Len(list) :
                  /\ Len(list) = rows * Len(types_)
                  /\ \A r \in 0..(rows - 1), c \in DOMAIN types_ :
                       BelongsElement(types_[c], list[r * Len(types_) + c])
        [] OTHER -> BelongsString(m.type, item, m.args)

\* an ignore rule covers an entry below the name it has
Covered(cfg, local, p) ==
  \E r \in ToSet(ignoreRules) :
    LET below == Len(p) - Len(r.name)
    IN  /\ below > 0 /\ SubSeq(Unexpanded(p), 1, Len(r.name)) = r.name
        /\ CASE r.sym = "everything" -> TRUE
             [] r.sym = "variables" -> below = 1 /\ cfg[local \o p].type # "scope"
             [] r.sym = "scopes" -> below > 1 \/ cfg[local \o p].type = "scope"
\* what a rule forces exists: in every scope that its "uid-" components stand for
Forced(cfg, local, name) ==
  \/ IsUid(name[Len(name)])
  \/ IF \E j \in DOMAIN name : IsUid(name[j])
     THEN \A p \in DOMAIN cfg : cfg[p].type = "scope" /\ Unexpanded(p) = local \o Front(name)
                                 => Append(p, name[Len(name)]) \in DOMAIN cfg
     ELSE local \o name \in DOMAIN cfg
IsScope(cfg, local) == local = <<>> \/ TypeIn(cfg, local) = "scope"
Conforms(cfg, local, mask, recursive, mode) ==
  /\ IsScope(cfg, local)
  /\ \A p \in Listed(cfg, local, mask, recursive) :
       \/ Covered(cfg, local, p)
       \/ \E r \in ToSet(idRules) : r.name = Unexpanded(p) /\ Belongs(r.type, cfg[local \o p], r.args)
  /\ \A r \in ToSet(idRules) :
       mode = "forceRequired" \/ (mode = "doNotForce" /\ ~r.optional) => Forced(cfg, local, r.name)

Masks == {{"string", "list"}, {"string", "list", "scope"}}
\* No assertion of validate fails and no type is missing once a schema has been
\* accepted, whatever the configuration and the scope.
NoAssertionFails ==
  phase \in {"none", "ready"} =>
    \A cfg \in Configs, local \in Locals, mask \in Masks :
      Validate(cfg, <<>>, local, mask, TRUE, "forceRequired") # "abort"

\* validate accepts a configuration exactly if it conforms to the schema: every
\* entry it accepts can be looked up as what its rule says, within its range.
\* And it always answers.  (With a local name, and a rule that ignores variables
\* or scopes, it may not: see VariablesAreIgnored.)
TypesMatter == \E r \in ToSet(ignoreRules) : r.sym # "everything"
ValidatesConformance ==
  /\ NoAssertionFails
  /\ phase = "ready" =>
       \A cfg \in Configs, mask \in Masks, recursive \in BOOLEAN, mode \in ForceModes, local \in Locals :
         local = <<>> \/ ~TypesMatter =>
           (Validate(cfg, <<>>, local, mask, recursive, mode) = "ok" <=> Conforms(cfg, local, mask, recursive, mode))

\* What the comment in shouldIgnore() says: an item directly in the scope of an
\* "@ignoreVariablesIn" rule is ignored if the item is a variable.
VariablesAreIgnored ==
  phase = "ready" =>
    \A cfg \in Configs, local \in Locals, r \in ToSet(ignoreRules) :
      r.sym = "variables" /\ IsScope(cfg, local) =>
        \A p \in Listed(cfg, local, {"string", "list"}, TRUE) :
          Unexpanded(Front(p)) = r.name => ShouldIgnore(cfg, <<>>, p)

(* The conversions do not depend on the state: they are compared in the first one. *)
Truncated(n, d) == IF n < 0 THEN -((-n) \div d) ELSE n \div d
InCoarserUnits(fine, coarse, ratio) ==
  fine.ends = "value" /\ coarse.ends = "value" /\ MinInt \notin {fine.val, coarse.val} /\ Abs(fine.val) <= 2^24
    => coarse.val = Truncated(fine.val, ratio)
\* isX says yes to what stringToX converts, for every type, and the conversions
\* of one duration or memory size to finer and to coarser units agree: the tables
\* of units, written out five times, are consistent.  (Up to the overflow of int
\* and the precision of float.)
ConversionsAgree ==
  phase = "none" =>
    \A s \in Texts :
      \E us \in {StringToDurationMicroseconds(s)}, ms \in {StringToDurationMilliseconds(s)},
         sec \in {StringToDurationSeconds(s)}, bytes \in {StringToMemorySizeBytes(s)},
         kb \in {StringToMemorySizeKB(s)}, mb \in {StringToMemorySizeMB(s)}, units \in {<<"second", "KB">>} :
        /\ \A agree \in {<<IsInt(s), StringToInt(s).ends>>, <<IsFloat(s), StringToFloat(s).ends>>,
                         <<IsBoolean(s), StringToBoolean(s).ends>>, <<IsEnum(s, BoolInfo), StringToEnum(s, BoolInfo).ends>>,
                         <<IsIntWithUnits(s, units), StringToIntWithUnits(s, units).ends>>,
                         <<IsFloatWithUnits(s, units), StringToFloatWithUnits(s, units).ends>>,
                         <<IsUnitsWithInt(s, units), StringToUnitsWithInt(s, units).ends>>,
                         <<IsUnitsWithFloat(s, units), StringToUnitsWithFloat(s, units).ends>>,
                         <<IsDurationMicroseconds(s), us.ends>>, <<IsDurationMilliseconds(s), ms.ends>>,
                         <<IsDurationSeconds(s), sec.ends>>, <<IsMemorySizeBytes(s), bytes.ends>>,
                         <<IsMemorySizeKB(s), kb.ends>>, <<IsMemorySizeMB(s), mb.ends>>} :
             agree[1] <=> agree[2] = "value"
        /\ s # Infinite => InCoarserUnits(us, ms, 1000) /\ InCoarserUnits(ms, sec, 1000)
        /\ InCoarserUnits(bytes, kb, 1024) /\ InCoarserUnits(kb, mb, 1024)

\* a default that goes through a text and a float: exact up to 2^24, then rounded
\* to 24 bits, and MinInt when that is more than an int holds
AfterFloat(r, d) ==
  /\ r.ends = "value"
  /\ IF d > MaxInt - 64 THEN r.val = MinInt
     ELSE r.val # MinInt /\ Abs(r.val - d) <= Abs(d) \div 2^24
\* A lookup with a default value yields what the lookup without one yields when
\* there is an entry, and the default when there is none, over the whole range of
\* int: exactly for ints, enums, booleans, lists and values with units, to six
\* decimals for floats, and for durations and memory sizes as far as a float goes.
\* Two kinds never do: lookupMemorySizeBytes writes its default with a unit that it
\* does not accept and throws, and the lookups with units call themselves for ever
\* when there is an entry.
DefaultsOnlyWhenAbsent ==
  phase = "none" =>
    \A d \in Defaults :
      \E none \in {[type |-> "none"]}, dflt \in {[num |-> d, units |-> "KB"]} :
        /\ {LookupIntOr(none, d), LookupEnumOrInt(none, BoolInfo, d)} = {Ok(d)}
        /\ \A r \in {LookupDurationMicrosecondsOr(none, d), LookupDurationMillisecondsOr(none, d),
                     LookupDurationSecondsOr(none, d), LookupMemorySizeKBOr(none, d),
                     LookupMemorySizeMBOr(none, d)} : AfterFloat(r, d)
        /\ LookupMemorySizeBytesOr(none, d) = Throws
        /\ \A f \in [int : {0, 7}, half : BOOLEAN, rest : BOOLEAN] :
             LookupFloatOr(none, f) = Ok([int |-> f.int, half |-> f.half])
        /\ LookupListOr(none, <<d>>) = Ok(<<d>>)
        /\ \A b \in BOOLEAN : LookupBooleanOr(none, b) = Ok(b)
        /\ {LookupIntWithUnitsOr(none, dflt), LookupUnitsWithIntOr(none, dflt),
            LookupFloatWithUnitsOr(none, dflt), LookupUnitsWithFloatOr(none, dflt)} = {Ok(dflt)}
        /\ \A item \in {[type |-> "string", val |-> s] : s \in Texts} \cup {[type |-> "scope"], [type |-> "list", list |-> <<>>]} :
             /\ LookupIntOr(item, d) = LookupInt(item)
             /\ LookupEnumOrInt(item, BoolInfo, d) = LookupEnum(item, BoolInfo)
             /\ LookupBooleanOr(item, d = 0) = LookupBoolean(item)
             /\ LookupFloatOr(item, Num(d)) = LookupFloat(item)
             /\ LookupListOr(item, <<d>>) = LookupList(item)
             /\ {LookupIntWithUnitsOr(item, dflt), LookupUnitsWithIntOr(item, dflt),
                 LookupFloatWithUnitsOr(item, dflt), LookupUnitsWithFloatOr(item, dflt)} = {Never}
             /\ LookupDurationMicrosecondsOr(item, d) = LookupDurationMicroseconds(item)
             /\ LookupDurationMillisecondsOr(item, d) = LookupDurationMilliseconds(item)
             /\ LookupDurationSecondsOr(item, d) = LookupDurationSeconds(item)
             /\ LookupMemorySizeBytesOr(item, d) = LookupMemorySizeBytes(item)
             /\ LookupMemorySizeKBOr(item, d) = LookupMemorySizeKB(item)
             /\ LookupMemorySizeMBOr(item, d) = LookupMemorySizeMB(item)
=============================================================================
