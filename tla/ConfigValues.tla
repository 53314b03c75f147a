---------------------------- MODULE ConfigValues ----------------------------
(* The values of string variables of config4cpp and the lookups that convert   *)
(* them.  A text is a sequence of words and numbers: what sscanf tells apart.  *)
(* (A number and a word that touch read like two with a space between them.)   *)
(* A number is a whole one, or one with a half behind it.                      *)
EXTENDS Integers, Sequences

Num(n) == [int |-> n, half |-> FALSE]
NumAndHalf(n) == [int |-> n, half |-> TRUE]
Word(w) == [word |-> w]
IsNum(t) == "int" \in DOMAIN t
Range_(s) == {s[i] : i \in DOMAIN s}

\* what a conversion or a lookup ends in: a value, an exception, or nothing at all
Ok(v) == [ends |-> "value", val |-> v]
Throws == [ends |-> "exception"]
Never == [ends |-> "never"]
Then(r, Convert(_)) == IF r.ends = "value" THEN Convert(r.val) ELSE r
-----------------------------------------------------------------------------
(* sscanf of "%d%c" or "%f%c", of "%d %s" or "%f %s", of "<unit> %d%c" or       *)
(* "<unit> %f%c".  %d stops before the half of a number, and finds more.       *)
ReadsNumber(t, whole) == IsNum(t) /\ ~(whole /\ t.half)
ScansNumber(s, whole) == Len(s) = 1 /\ ReadsNumber(s[1], whole)
ScansNumberUnit(s, units, whole) ==
  Len(s) >= 2 /\ ReadsNumber(s[1], whole) /\ ~IsNum(s[2]) /\ s[2].word \in Range_(units)
ScansUnitNumber(s, unit, whole) == Len(s) = 2 /\ s[1] = Word(unit) /\ ReadsNumber(s[2], whole)

IsInt(s) == ScansNumber(s, TRUE)
StringToInt(s) == IF ScansNumber(s, TRUE) THEN Ok(s[1].int) ELSE Throws
IsFloat(s) == ScansNumber(s, FALSE)
StringToFloat(s) == IF ScansNumber(s, FALSE) THEN Ok(s[1]) ELSE Throws

\* `enumInfo' maps the names to the values
EnumVal(s, enumInfo) == Len(s) = 1 /\ ~IsNum(s[1]) /\ s[1].word \in DOMAIN enumInfo
IsEnum(s, enumInfo) == EnumVal(s, enumInfo)
StringToEnum(s, enumInfo) == IF EnumVal(s, enumInfo) THEN Ok(enumInfo[s[1].word]) ELSE Throws
BoolInfo == [false |-> 0, true |-> 1]
IsBoolean(s) == EnumVal(s, BoolInfo)
StringToBoolean(s) == Then(StringToEnum(s, BoolInfo), LAMBDA n : Ok(n # 0))

IsIntWithUnits(s, units) == ScansNumberUnit(s, units, TRUE)
StringToIntWithUnits(s, units) ==
  IF ScansNumberUnit(s, units, TRUE) THEN Ok([num |-> s[1].int, units |-> s[2].word]) ELSE Throws
IsUnitsWithInt(s, units) == \E i \in DOMAIN units : ScansUnitNumber(s, units[i], TRUE)
StringToUnitsWithInt(s, units) ==
  IF \E i \in DOMAIN units : ScansUnitNumber(s, units[i], TRUE)
  THEN Ok([num |-> s[2].int, units |-> s[1].word]) ELSE Throws
IsFloatWithUnits(s, units) == ScansNumberUnit(s, units, FALSE)
StringToFloatWithUnits(s, units) ==
  IF ScansNumberUnit(s, units, FALSE) THEN Ok([num |-> s[1], units |-> s[2].word]) ELSE Throws
IsUnitsWithFloat(s, units) == \E i \in DOMAIN units : ScansUnitNumber(s, units[i], FALSE)
StringToUnitsWithFloat(s, units) ==
  IF \E i \in DOMAIN units : ScansUnitNumber(s, units[i], FALSE)
  THEN Ok([num |-> s[2], units |-> s[1].word]) ELSE Throws
-----------------------------------------------------------------------------
(* (int)(floatVal * unitsVal): single precision has 24 bits, int has 32; a     *)
(* conversion that does not fit is undefined, and x86 makes MinInt of it.      *)
MaxInt == 2147483647
MinInt == -MaxInt - 1
Abs(n) == IF n < 0 THEN -n ELSE n

\* the bits of n beyond the 24 that a float keeps
LostBits(n) == CHOOSE k \in 0..7 : n \div 2^k < 2^24 /\ \A j \in 0..(k - 1) : n \div 2^j >= 2^24
\* n >= 0 rounded to a float, ties to even, as a multiple of 2^LostBits(n)
Mantissa(n) ==
  LET u == 2^LostBits(n)
      q == n \div u
      r == n % u
  IN  IF 2 * r > u \/ (2 * r = u /\ q % 2 = 1) THEN q + 1 ELSE q
FloatFits(n) == ~(LostBits(n) = 7 /\ Mantissa(n) = 2^24)
AsFloat(n) == Mantissa(n) * 2^LostBits(n)

\* |floatVal| * unitsVal; every unit but 1 is even
Scaled(num, unit) ==
  LET n == Abs(num.int)
  IN  IF ~FloatFits(n) \/ AsFloat(n) > MaxInt \div unit THEN MinInt
      ELSE LET product == AsFloat(n) * unit + (IF num.half THEN unit \div 2 ELSE 0)
           IN  IF product < 0 \/ ~FloatFits(product) THEN MinInt
               ELSE IF num.int < 0 THEN -AsFloat(product) ELSE AsFloat(product)

DurationMicrosecondsUnitsInfo ==
  [microsecond |-> 1, microseconds |-> 1, millisecond |-> 1000, milliseconds |-> 1000,
   second |-> 1000000, seconds |-> 1000000, minute |-> 60000000, minutes |-> 60000000]
AllowedDurationMicrosecondsUnits ==
  <<"microsecond", "microseconds", "millisecond", "milliseconds", "second", "seconds", "minute", "minutes">>
DurationMillisecondsUnitsInfo ==
  [millisecond |-> 1, milliseconds |-> 1, second |-> 1000, seconds |-> 1000,
   minute |-> 60000, minutes |-> 60000, hour |-> 3600000, hours |-> 3600000,
   day |-> 86400000, days |-> 86400000, week |-> 604800000, weeks |-> 604800000]
AllowedDurationMillisecondsUnits ==
  <<"millisecond", "milliseconds", "second", "seconds", "minute", "minutes", "hour", "hours", "day", "days",
    "week", "weeks">>
DurationSecondsUnitsInfo ==
  [second |-> 1, seconds |-> 1, minute |-> 60, minutes |-> 60, hour |-> 3600, hours |-> 3600,
   day |-> 86400, days |-> 86400, week |-> 604800, weeks |-> 604800]
AllowedDurationSecondsUnits ==
  <<"second", "seconds", "minute", "minutes", "hour", "hours", "day", "days", "week", "weeks">>
MemorySizeBytesUnitsInfo == [byte |-> 1, bytes |-> 1, KB |-> 1024, MB |-> 1024 * 1024, GB |-> 1024 * 1024 * 1024]
MemorySizeKBUnitsInfo == [KB |-> 1, MB |-> 1024, GB |-> 1024 * 1024, TB |-> 1024 * 1024 * 1024]
MemorySizeMBUnitsInfo == [MB |-> 1, GB |-> 1024, TB |-> 1024 * 1024, PB |-> 1024 * 1024 * 1024]

Infinite == <<Word("infinite")>>
StringToMemorySizeGeneric(s, info, units) ==
  Then(StringToFloatWithUnits(s, units), LAMBDA v : Ok(Scaled(v.num, info[v.units])))

IsDurationMicroseconds(s) == s = Infinite \/ IsFloatWithUnits(s, AllowedDurationMicrosecondsUnits)
StringToDurationMicroseconds(s) ==
  IF s = Infinite THEN Ok(-1)
  ELSE Then(StringToFloatWithUnits(s, AllowedDurationMicrosecondsUnits),
            LAMBDA v : Ok(Scaled(v.num, DurationMicrosecondsUnitsInfo[v.units])))
IsDurationMilliseconds(s) == s = Infinite \/ IsFloatWithUnits(s, AllowedDurationMillisecondsUnits)
StringToDurationMilliseconds(s) ==
  IF s = Infinite THEN Ok(-1)
  ELSE Then(StringToFloatWithUnits(s, AllowedDurationMillisecondsUnits),
            LAMBDA v : Ok(Scaled(v.num, DurationMillisecondsUnitsInfo[v.units])))
IsDurationSeconds(s) == s = Infinite \/ IsFloatWithUnits(s, AllowedDurationSecondsUnits)
\* mistake: a number that is not followed by a unit is taken as seconds
StringToDurationSecondsBare(s) ==
  IF s = Infinite THEN Ok(-1)
  ELSE IF ScansNumber(s, FALSE) THEN Ok(s[1].int)
  ELSE Then(StringToFloatWithUnits(s, AllowedDurationSecondsUnits),
            LAMBDA v : Ok(Scaled(v.num, DurationSecondsUnitsInfo[v.units])))
StringToDurationSeconds(s) ==
  IF s = Infinite THEN Ok(-1)
  ELSE Then(StringToFloatWithUnits(s, AllowedDurationSecondsUnits),
            LAMBDA v : Ok(Scaled(v.num, DurationSecondsUnitsInfo[v.units])))

IsMemorySizeBytes(s) == IsFloatWithUnits(s, <<"byte", "bytes", "KB", "MB", "GB">>)
StringToMemorySizeBytes(s) ==
  StringToMemorySizeGeneric(s, MemorySizeBytesUnitsInfo, <<"byte", "bytes", "KB", "MB", "GB">>)
IsMemorySizeKB(s) == IsFloatWithUnits(s, <<"KB", "MB", "GB", "TB">>)
StringToMemorySizeKB(s) == StringToMemorySizeGeneric(s, MemorySizeKBUnitsInfo, <<"KB", "MB", "GB", "TB">>)
IsMemorySizeMB(s) == IsFloatWithUnits(s, <<"MB", "GB", "TB", "PB">>)
StringToMemorySizeMB(s) == StringToMemorySizeGeneric(s, MemorySizeMBUnitsInfo, <<"MB", "GB", "TB", "PB">>)
-----------------------------------------------------------------------------
(* The lookups, of the item that lookup found: a string, a list, a scope or    *)
(* [type |-> "none"]; with `Or', the ones that take a default value.           *)
LookupString(item) == IF item.type = "string" THEN Ok(item.val) ELSE Throws
LookupStringOr(item, defaultVal) ==
  IF item.type = "none" THEN Ok(defaultVal) ELSE IF item.type = "string" THEN Ok(item.val) ELSE Throws
LookupList(item) == IF item.type = "list" THEN Ok(item.list) ELSE Throws
LookupListOr(item, defaultList) ==
  IF item.type = "none" THEN Ok(defaultList) ELSE IF item.type = "list" THEN Ok(item.list) ELSE Throws
LookupScope(item) == IF item.type = "scope" THEN Ok(item) ELSE Throws

LookupEnum(item, enumInfo) == Then(LookupString(item), LAMBDA s : StringToEnum(s, enumInfo))
LookupEnumOr(item, enumInfo, defaultName) ==
  Then(LookupStringOr(item, <<Word(defaultName)>>), LAMBDA s : StringToEnum(s, enumInfo))
LookupEnumOrInt(item, enumInfo, defaultVal) ==
  IF item.type = "none" THEN Ok(defaultVal) ELSE LookupEnum(item, enumInfo)
LookupBoolean(item) == Then(LookupEnum(item, BoolInfo), LAMBDA n : Ok(n # 0))
LookupBooleanOr(item, defaultVal) ==
  Then(LookupEnumOr(item, BoolInfo, IF defaultVal THEN "true" ELSE "false"), LAMBDA n : Ok(n # 0))

LookupInt(item) == Then(LookupString(item), StringToInt)
LookupIntOr(item, defaultVal) == Then(LookupStringOr(item, <<Num(defaultVal)>>), StringToInt)
LookupFloat(item) == Then(LookupString(item), StringToFloat)
\* "%f" has six decimals: a float loses the rest it has beyond them
Printed(f) == [int |-> f.int, half |-> f.half]
LookupFloatOr(item, defaultVal) == Then(LookupStringOr(item, <<Printed(defaultVal)>>), StringToFloat)

\* those with a default call themselves, with the default, when there is a value
LookupIntWithUnits(item, units) == Then(LookupString(item), LAMBDA s : StringToIntWithUnits(s, units))
LookupIntWithUnitsOr(item, d) == IF item.type = "none" THEN Ok(d) ELSE Never
LookupUnitsWithInt(item, units) == Then(LookupString(item), LAMBDA s : StringToUnitsWithInt(s, units))
LookupUnitsWithIntOr(item, d) == IF item.type = "none" THEN Ok(d) ELSE LookupIntWithUnitsOr(item, d)
LookupFloatWithUnits(item, units) == Then(LookupString(item), LAMBDA s : StringToFloatWithUnits(s, units))
LookupFloatWithUnitsOr(item, d) == IF item.type = "none" THEN Ok(d) ELSE Never
LookupUnitsWithFloat(item, units) == Then(LookupString(item), LAMBDA s : StringToUnitsWithFloat(s, units))
LookupUnitsWithFloatOr(item, d) == IF item.type = "none" THEN Ok(d) ELSE LookupFloatWithUnitsOr(item, d)

DurationText(d, unit) == IF d = -1 THEN Infinite ELSE <<Num(d), Word(unit)>>
LookupDurationMicroseconds(item) == Then(LookupString(item), StringToDurationMicroseconds)
LookupDurationMicrosecondsOr(item, d) ==
  Then(LookupStringOr(item, DurationText(d, "microseconds")), StringToDurationMicroseconds)
LookupDurationMilliseconds(item) == Then(LookupString(item), StringToDurationMilliseconds)
\* mistake: the default is written with the units of another lookup
LookupDurationMillisecondsOrSeconds(item, d) ==
  Then(LookupStringOr(item, DurationText(d, "seconds")), StringToDurationMilliseconds)
LookupDurationMillisecondsOr(item, d) ==
  Then(LookupStringOr(item, DurationText(d, "milliseconds")), StringToDurationMilliseconds)
LookupDurationSeconds(item) == Then(LookupString(item), StringToDurationSeconds)
LookupDurationSecondsOr(item, d) ==
  Then(LookupStringOr(item, DurationText(d, "seconds")), StringToDurationSeconds)

LookupMemorySizeBytes(item) == Then(LookupString(item), StringToMemorySizeBytes)
LookupMemorySizeBytesOr(item, d) ==
  Then(LookupStringOr(item, <<Num(d), Word("milliseconds")>>), StringToMemorySizeBytes)
LookupMemorySizeKB(item) == Then(LookupString(item), StringToMemorySizeKB)
LookupMemorySizeKBOr(item, d) == Then(LookupStringOr(item, <<Num(d), Word("KB")>>), StringToMemorySizeKB)
LookupMemorySizeMB(item) == Then(LookupString(item), StringToMemorySizeMB)
LookupMemorySizeMBOr(item, d) == Then(LookupStringOr(item, <<Num(d), Word("MB")>>), StringToMemorySizeMB)
=============================================================================
