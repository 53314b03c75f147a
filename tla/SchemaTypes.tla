----------------------------- MODULE SchemaTypes -----------------------------
(* The types of a schema of config4cpp: what each makes of the arguments of a  *)
(* rule (checkRule) and of a value (validate, isA).  A check ends well, in an  *)
(* exception, or in an assertion or a null pointer that stops the program.     *)
EXTENDS ConfigValues, SequencesExt

CONSTANTS Rank,            \* names in the order of strcmp: [name -> Nat]
          InitialTypesMax  \* size of the array of types at first: 25 in the code

VARIABLES types,       \* m_types: the names in the order of the array
          defs,        \* the @typedef types: their base type and its arguments
          typesMax,    \* m_typesMaxSize
          sorted       \* m_areTypesSorted

ListTypes == {"list", "table", "tuple"}
BuiltinTypes ==
  <<"scope", "list", "table", "tuple", "string", "boolean", "durationMicroseconds", "durationMilliseconds",
    "durationSeconds", "enum", "float", "floatWithUnits", "int", "intWithUnits", "unitsWithFloat",
    "unitsWithInt", "memorySizeBytes", "memorySizeKB", "memorySizeMB">>

TypesInit ==
  /\ types = BuiltinTypes /\ defs = [t \in {} |-> <<>>]
  /\ typesMax = InitialTypesMax /\ sorted = FALSE

RECURSIVE BSearchIn(_, _, _, _, _)
\* bsearch of the C library between the indices l and u, the index or 0
BSearchIn(keys, key, Precedes(_, _), l, u) ==
  IF l >= u THEN 0
  ELSE LET i == (l + u) \div 2
       IN  IF Precedes(key, keys[i + 1]) THEN BSearchIn(keys, key, Precedes, l, i)
           ELSE IF Precedes(keys[i + 1], key) THEN BSearchIn(keys, key, Precedes, i + 1, u) ELSE i + 1
BSearch(keys, key, Precedes(_, _)) == BSearchIn(keys, key, Precedes, 0, Len(keys))

TypePrecedes(s, t) == Rank[s] < Rank[t]
\* whether findType finds the type, in an array that is sorted and in one that is not
FindType(t) ==
  IF sorted THEN t \in DOMAIN Rank /\ BSearch(types, t, TypePrecedes) # 0
  ELSE \E i \in DOMAIN types : types[i] = t

\* registerTypedef, and the sort that follows it; it fails when the type exists
CanRegister(t) == \A i \in DOMAIN types : types[i] # t
EnsureSpaceInTypesArray == IF Len(types) = typesMax THEN typesMax * 2 ELSE typesMax
RegisterTypedef(t, def) ==
  /\ defs' = [u \in DOMAIN defs \cup {t} |-> IF u = t THEN def ELSE defs[u]]
  /\ types' = SortSeq(Append(types, t), TypePrecedes) /\ sorted' = TRUE
  /\ typesMax' = EnsureSpaceInTypesArray

RECURSIVE CfgType(_)
CfgType(t) ==
  IF t \in DOMAIN defs THEN CfgType(defs[t].base)
  ELSE IF t = "scope" THEN "scope" ELSE IF t \in ListTypes THEN "list" ELSE "string"
-----------------------------------------------------------------------------
(* checkRule *)
TypeName(arg) == IF Len(arg) = 1 /\ ~IsNum(arg[1]) THEN arg[1].word ELSE ""
IsStringType(arg) == FindType(TypeName(arg)) /\ CfgType(TypeName(arg)) = "string"

\* no arguments, or the two ends of a range
CheckRange(args, Convert(_), Fit(_, _)) ==
  \/ args = <<>>
  \/ /\ Len(args) = 2 /\ \A i \in 1..2 : Convert(args[i]).ends = "value"
     /\ Fit(Convert(args[1]).val, Convert(args[2]).val)
\* -1 is infinite
DurationsFit(min, max) == min >= -1 /\ max >= -1 /\ ~(max # -1 /\ (min = -1 \/ min > max))
Twice(num) == IF num.int < 0 THEN 2 * num.int - (IF num.half THEN 1 ELSE 0)
              ELSE 2 * num.int + (IF num.half THEN 1 ELSE 0)

CheckNoArgs(args) == args = <<>>
CheckBoolean(args) == CheckNoArgs(args)
CheckScope(args) == CheckNoArgs(args)
CheckTypedef(args) == CheckNoArgs(args)
CheckEnum(args) == args # <<>>
CheckFloatWithUnits(args) == args # <<>>
CheckIntWithUnits(args) == args # <<>>
CheckUnitsWithFloat(args) == args # <<>>
CheckUnitsWithInt(args) == args # <<>>
CheckInt(args) == CheckRange(args, StringToInt, LAMBDA min, max : min <= max)
CheckFloat(args) == CheckRange(args, StringToFloat, LAMBDA min, max : Twice(min) <= Twice(max))
CheckString(args) == CheckRange(args, StringToInt, LAMBDA min, max : min >= 0 /\ max >= 0 /\ min <= max)
CheckDurationMicroseconds(args) == CheckRange(args, StringToDurationMicroseconds, DurationsFit)
CheckDurationMilliseconds(args) == CheckRange(args, StringToDurationMilliseconds, DurationsFit)
CheckDurationSeconds(args) == CheckRange(args, StringToDurationSeconds, DurationsFit)
CheckMemorySizeBytes(args) == CheckRange(args, StringToMemorySizeBytes, DurationsFit)
CheckMemorySizeKB(args) == CheckRange(args, StringToMemorySizeKB, DurationsFit)
CheckMemorySizeMB(args) == CheckRange(args, StringToMemorySizeMB, DurationsFit)
CheckList(args) == Len(args) = 1 /\ IsStringType(args[1])
\* pairs of a type and a name
Columns(args) == Len(args) \div 2
ColumnType(args, i) == TypeName(args[2 * ((i - 1) % Columns(args)) + 1])
CheckTable(args) ==
  Len(args) > 0 /\ Len(args) % 2 = 0 /\ \A i \in 1..Columns(args) : IsStringType(args[2 * i - 1])
CheckTuple(args) ==
  Len(args) > 0 /\ Len(args) % 2 = 0 /\ \A i \in 1..Columns(args) : IsStringType(args[2 * i - 1])

CallCheckRule(t, args) ==
  CASE t \in DOMAIN defs -> CheckTypedef(args)
    [] t = "boolean" -> CheckBoolean(args)
    [] t = "scope" -> CheckScope(args)
    [] t = "enum" -> CheckEnum(args)
    [] t = "int" -> CheckInt(args)
    [] t = "float" -> CheckFloat(args)
    [] t = "string" -> CheckString(args)
    [] t = "list" -> CheckList(args)
    [] t = "table" -> CheckTable(args)
    [] t = "tuple" -> CheckTuple(args)
    [] t = "intWithUnits" -> CheckIntWithUnits(args)
    [] t = "floatWithUnits" -> CheckFloatWithUnits(args)
    [] t = "unitsWithInt" -> CheckUnitsWithInt(args)
    [] t = "unitsWithFloat" -> CheckUnitsWithFloat(args)
    [] t = "durationMicroseconds" -> CheckDurationMicroseconds(args)
    [] t = "durationMilliseconds" -> CheckDurationMilliseconds(args)
    [] t = "durationSeconds" -> CheckDurationSeconds(args)
    [] t = "memorySizeBytes" -> CheckMemorySizeBytes(args)
    [] t = "memorySizeKB" -> CheckMemorySizeKB(args)
    [] t = "memorySizeMB" -> CheckMemorySizeMB(args)
-----------------------------------------------------------------------------
(* isA and validate *)
If(b) == IF b THEN "ok" ELSE "error"
\* the outcomes of a loop that the first exception or abort ends
First(outcomes) ==
  LET bad == {i \in DOMAIN outcomes : outcomes[i] # "ok"}
  IN  IF bad = {} THEN "ok" ELSE outcomes[CHOOSE i \in bad : \A j \in bad : i <= j]
Words(args) == [i \in DOMAIN args |-> TypeName(args[i])]

InRange(s, args, Convert(_), Within(_, _, _)) ==
  LET v == Convert(s)
  IN  IF v.ends # "value" THEN "error"
      ELSE IF args = <<>> THEN "ok" ELSE Within(v.val, Convert(args[1]).val, Convert(args[2]).val)
Between(val, min, max) == If(min <= val /\ val <= max)
DurationBetween(val, min, max) ==
  IF min = -1 THEN IF max = -1 THEN If(val = -1) ELSE "abort"
  ELSE If((val = -1 /\ max = -1) \/ (val >= min /\ (val <= max \/ max = -1)))

IsABoolean(s) == If(IsBoolean(s))
IsAEnum(s, args) == If(\E i \in DOMAIN args : s = args[i])
IsAIntWithUnits(s, args) == If(IsIntWithUnits(s, Words(args)))
IsAFloatWithUnits(s, args) == If(IsFloatWithUnits(s, Words(args)))
IsAUnitsWithInt(s, args) == If(IsUnitsWithInt(s, Words(args)))
IsAUnitsWithFloat(s, args) == If(IsUnitsWithFloat(s, Words(args)))
IsAInt(s, args) == InRange(s, args, StringToInt, Between)
IsAFloat(s, args) ==
  InRange(s, args, StringToFloat, LAMBDA val, min, max : Between(Twice(val), Twice(min), Twice(max)))
\* the length of a text is that of its words
Length(s) == Len(s)
IsAString(s, args) ==
  If(Len(args) = 2 => StringToInt(args[1]).val <= Length(s) /\ Length(s) <= StringToInt(args[2]).val)
IsADurationMicroseconds(s, args) == InRange(s, args, StringToDurationMicroseconds, DurationBetween)
IsADurationMilliseconds(s, args) == InRange(s, args, StringToDurationMilliseconds, DurationBetween)
IsADurationSeconds(s, args) == InRange(s, args, StringToDurationSeconds, DurationBetween)
IsAMemorySizeBytes(s, args) == InRange(s, args, StringToMemorySizeBytes, Between)
IsAMemorySizeKB(s, args) == InRange(s, args, StringToMemorySizeKB, Between)
IsAMemorySizeMB(s, args) == InRange(s, args, StringToMemorySizeMB, Between)

RECURSIVE CallIsA(_, _, _)
IsATypedef(t, s, args) ==
  IF args # <<>> \/ ~FindType(defs[t].base) THEN "abort" ELSE CallIsA(defs[t].base, s, defs[t].args)
CallIsA(t, s, args) ==
  CASE t \in DOMAIN defs -> IsATypedef(t, s, args)
    [] t = "boolean" -> IsABoolean(s)
    [] t = "enum" -> IsAEnum(s, args)
    [] t = "int" -> IsAInt(s, args)
    [] t = "float" -> IsAFloat(s, args)
    [] t = "string" -> IsAString(s, args)
    [] t = "intWithUnits" -> IsAIntWithUnits(s, args)
    [] t = "floatWithUnits" -> IsAFloatWithUnits(s, args)
    [] t = "unitsWithInt" -> IsAUnitsWithInt(s, args)
    [] t = "unitsWithFloat" -> IsAUnitsWithFloat(s, args)
    [] t = "durationMicroseconds" -> IsADurationMicroseconds(s, args)
    [] t = "durationMilliseconds" -> IsADurationMilliseconds(s, args)
    [] t = "durationSeconds" -> IsADurationSeconds(s, args)
    [] t = "memorySizeBytes" -> IsAMemorySizeBytes(s, args)
    [] t = "memorySizeKB" -> IsAMemorySizeKB(s, args)
    [] t = "memorySizeMB" -> IsAMemorySizeMB(s, args)
    [] OTHER -> "error"

ValidateString(t, item, args) ==
  LET s == LookupString(item) IN IF s.ends # "value" THEN "error" ELSE CallIsA(t, s.val, args)
ValidateScope(item) == If(LookupScope(item).ends = "value")
ValidateList(item, args) ==
  LET elem == TypeName(args[1])
      list == LookupList(item)
  IN  IF Len(args) # 1 \/ ~IsStringType(args[1]) THEN "abort"
      ELSE IF list.ends # "value" THEN "error"
      ELSE First([i \in DOMAIN list.val |-> CallIsA(elem, list.val[i], <<>>)])
ByColumn(list, args) ==
  First([i \in DOMAIN list |->
    IF FindType(ColumnType(args, i)) THEN CallIsA(ColumnType(args, i), list[i], <<>>) ELSE "abort"])
ValidateTable(item, args) ==
  LET list == LookupList(item)
  IN  IF Len(args) = 0 \/ Len(args) % 2 # 0 THEN "abort"
      ELSE IF list.ends # "value" \/ Len(list.val) % Columns(args) # 0 THEN "error"
      ELSE ByColumn(list.val, args)
ValidateTuple(item, args) ==
  LET list == LookupList(item)
  IN  IF Len(args) = 0 \/ Len(args) % 2 # 0 THEN "abort"
      ELSE IF list.ends # "value" \/ Len(list.val) # Columns(args) THEN "error"
      ELSE ByColumn(list.val, args)

RECURSIVE CallValidate(_, _, _)
ValidateTypedef(t, item, args) ==
  IF args # <<>> \/ ~FindType(defs[t].base) THEN "abort" ELSE CallValidate(defs[t].base, item, defs[t].args)
CallValidate(t, item, args) ==
  CASE t \in DOMAIN defs -> ValidateTypedef(t, item, args)
    [] t = "scope" -> ValidateScope(item)
    [] t = "list" -> ValidateList(item, args)
    [] t = "table" -> ValidateTable(item, args)
    [] t = "tuple" -> ValidateTuple(item, args)
    [] OTHER -> ValidateString(t, item, args)
=============================================================================
