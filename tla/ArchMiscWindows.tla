--------------------------- MODULE ArchMiscWindows ---------------------------
(***************************************************************************)
(* Two pieces of ArchMiscWindows (arch/win32/ArchMiscWindows.cpp) that     *)
(* carry state of their own, as pure operators:                            *)
(*   - the registry key walk of openKey/addKey, with the key handles it    *)
(*     opens and closes;                                                   *)
(*   - the busy-state mask of addBusyState/removeBusyState and what        *)
(*     setThreadExecutionState hands to the operating system.              *)
(*                                                                         *)
(* A key handle is the path of the key it names, a sequence of subkey      *)
(* names below the caller's root key (<<>>).  Handles open at one time are *)
(* a bag: two opens of one key are two handles.  A registry is a record    *)
(* of the keys that exist, the keys the service may neither open nor      *)
(* create (KEY_WRITE | KEY_QUERY_VALUE is refused), and the open handles.  *)
(***************************************************************************)
EXTENDS Naturals, Sequences, Bitwise
LOCAL INSTANCE Bags
LOCAL INSTANCE BagsExt

CONSTANT NullKey             \* the HKEY value NULL

-----------------------------------------------------------------------------
(* Registry keys.                                                          *)

\* Mutant of openKey: a failed open returns NULL without closing the parent.
openKeyLeaksParent(reg, key, keyName, create) ==
    IF key = NullKey
    THEN [reg EXCEPT !.result = NullKey]
    ELSE LET sub     == Append(key, keyName)
             opened  == sub \in reg.keys /\ sub \notin reg.denied
             created == ~opened /\ create /\ sub \notin reg.denied
         IN  IF opened \/ created
             THEN [reg EXCEPT !.keys   = @ \cup {sub},
                              !.open   = BagAdd(BagRemove(reg.open, key), sub),
                              !.result = sub]
             ELSE [reg EXCEPT !.result = NullKey]

\* openKey(HKEY, const wchar_t*, bool), lines 132-156: a NULL parent gives
\* NULL.  RegOpenKeyExW, and on failure with create RegCreateKeyExW, open
\* the subkey; either way the parent handle is closed, and the subkey's
\* handle, or NULL, is returned.
openKey(reg, key, keyName, create) ==
    IF key = NullKey
    THEN [reg EXCEPT !.result = NullKey]
    ELSE LET sub     == Append(key, keyName)
             opened  == sub \in reg.keys /\ sub \notin reg.denied
             created == ~opened /\ create /\ sub \notin reg.denied
             closed  == BagRemove(reg.open, key)
         IN  IF opened \/ created
             THEN [reg EXCEPT !.keys   = @ \cup {sub},
                              !.open   = BagAdd(closed, sub),
                              !.result = sub]
             ELSE [reg EXCEPT !.open = closed, !.result = NullKey]

\* openKey(HKEY, const wchar_t* const*, bool), lines 160-167: walk the
\* NULL-terminated name list while the key is not NULL.
RECURSIVE openKeyLoop(_, _, _, _)
openKeyLoop(reg, keyNames, i, create) ==
    IF reg.result = NullKey \/ i > Len(keyNames)
    THEN reg
    ELSE openKeyLoop(openKey(reg, reg.result, keyNames[i], create),
                     keyNames, i + 1, create)

\* The public entry points, lines 108-130: openKey opens existing keys,
\* addKey creates missing ones.  The caller's root key handle is the only
\* one open, and is handed over.
openKeyPath(keys, denied, keyNames, create) ==
    openKeyLoop([keys |-> keys, denied |-> denied,
                 open |-> SetToBag({<<>>}), result |-> <<>>],
                keyNames, 1, create)

-----------------------------------------------------------------------------
(* Busy state.  Modes are the EBusyModes bits kSYSTEM = 1, kDISPLAY = 2.   *)
(* The operating system's state is the set of requirements a thread holds *)
(* continuously: a SetThreadExecutionState call with ES_CONTINUOUS        *)
(* replaces them, one without it only resets the idle timers once and     *)
(* leaves them in force.                                                   *)

kSYSTEM  == 1
kDISPLAY == 2
\* A DWORD, cut to 30 bits as TLC's integers need: the mask only ever
\* holds the two mode bits, and ~ and & act on each bit alone, so the
\* width above them changes nothing the mask or the call depends on.
DWORD    == 2^30

\* ~x on a DWORD.
complement(x) == DWORD - 1 - x

\* Look SetThreadExecutionState up in kernel32.dll once, into the shared
\* s_stes: a missing export installs the dummy for good.
stesLoaded(st, kernelHasStes) ==
    IF st.stes = "unset" THEN IF kernelHasStes THEN "kernel" ELSE "dummy"
    ELSE st.stes

\* setThreadExecutionState, lines 366-394: load s_stes, translate the
\* modes, and make the call.
setThreadExecutionState(st, busyModes, kernelHasStes) ==
    LET stes  == stesLoaded(st, kernelHasStes)
        flags == {f \in {"system", "display"} :
                    (busyModes & (IF f = "system" THEN kSYSTEM ELSE kDISPLAY)) # 0}
        state == IF flags # {} THEN flags \cup {"continuous"} ELSE flags
    IN  [st EXCEPT !.stes = stes,
                   !.os   = IF stes = "kernel" /\ "continuous" \in state
                            THEN state \ {"continuous"}
                            ELSE @]

\* addBusyState, lines 352-356.
addBusyState(st, busyModes, kernelHasStes) ==
    setThreadExecutionState([st EXCEPT !.busyState = @ | busyModes],
                            st.busyState | busyModes, kernelHasStes)

\* Mutant of removeBusyState: the mask is and-ed with the modes, not with
\* their complement.
removeBusyStateKeepsModes(st, busyModes, kernelHasStes) ==
    setThreadExecutionState([st EXCEPT !.busyState = @ & busyModes],
                            st.busyState & busyModes, kernelHasStes)

\* removeBusyState, lines 359-363.
removeBusyState(st, busyModes, kernelHasStes) ==
    setThreadExecutionState([st EXCEPT !.busyState = @ & complement(busyModes)],
                            st.busyState & complement(busyModes), kernelHasStes)

\* wakeupDisplay, lines 404-425: load s_stes, reset the display's idle
\* timer with a call without ES_CONTINUOUS (which leaves the requirements
\* in force as they are), then restore the busy state.
wakeupDisplay(st, kernelHasStes) ==
    setThreadExecutionState([st EXCEPT !.stes = stesLoaded(st, kernelHasStes)],
                            st.busyState, kernelHasStes)

\* The statics at load time (lines 48-49).
BusyInit == [busyState |-> 0, stes |-> "unset", os |-> {}]

\* A sequence of calls, each <<"add", "remove" or "wake", modes>>.
RECURSIVE applyBusyCalls(_, _, _)
applyBusyCalls(st, calls, kernelHasStes) ==
    IF calls = <<>>
    THEN st
    ELSE LET c == Head(calls)
             s == CASE c[1] = "add"    -> addBusyState(st, c[2], kernelHasStes)
                    [] c[1] = "remove" -> removeBusyState(st, c[2], kernelHasStes)
                    [] c[1] = "wake"   -> wakeupDisplay(st, kernelHasStes)
         IN  applyBusyCalls(s, Tail(calls), kernelHasStes)

-----------------------------------------------------------------------------
(* Registry values, as the release build runs them (assert compiled out).  *)
(* The values below one key are a function from value names to a type and *)
(* the bytes RegSetValueExW stored; a DWORD's data is its number.  A wide  *)
(* character of the names modelled is two bytes, the character and 0      *)
(* (UTF-16LE below U+0100).  NULL is a returned buffer that is NULL;       *)
(* Garbage stands for characters decoded from memory the code never wrote. *)

NoValue == [type |-> "none", data |-> <<>>]
NULL    == "NULL"
Zero    == "\\0"      \* the zero byte
Garbage == "?"

\* The bytes of value.c_str(): each character and its zero high byte, then
\* the two-byte terminator.
cStr(value) ==
    [i \in 1..2 * Len(value) |-> IF i % 2 = 1 THEN value[(i + 1) \div 2] ELSE Zero]
        \o <<Zero, Zero>>

\* The value as RegQueryValueExW sees it through key: none through NULL.
valueAt(vals, key, name) == IF key = NullKey THEN NoValue ELSE vals[name]

\* setValue(HKEY, name, wstring), lines 227-237: REG_SZ with
\* value.size() + 1 as the byte count.
setValueString(vals, key, name, value) ==
    IF key = NullKey THEN vals
    ELSE [vals EXCEPT ![name] = [type |-> "REG_SZ",
                                 data |-> SubSeq(cStr(value), 1, Len(value) + 1)]]

\* setValue(HKEY, name, DWORD), lines 239-248.
setValueDWORD(vals, key, name, value) ==
    IF key = NullKey THEN vals
    ELSE [vals EXCEPT ![name] = [type |-> "REG_DWORD", data |-> value]]

\* setValueBinary, lines 250-261.
setValueBinary(vals, key, name, value) ==
    IF key = NullKey THEN vals
    ELSE [vals EXCEPT ![name] = [type |-> "REG_BINARY", data |-> value]]

\* deleteValue, lines 186-193.
deleteValue(vals, key, name) ==
    IF key = NullKey THEN vals ELSE [vals EXCEPT ![name] = NoValue]

\* hasValue, lines 195-202: only DWORD and string values count.
hasValue(vals, key, name) ==
    valueAt(vals, key, name).type \in {"REG_DWORD", "REG_SZ"}

\* typeOfValue, lines 204-225.
typeOfValue(vals, key, name) ==
    CASE valueAt(vals, key, name).type = "none"       -> "kNO_VALUE"
      [] valueAt(vals, key, name).type = "REG_DWORD"  -> "kUINT"
      [] valueAt(vals, key, name).type = "REG_SZ"     -> "kSTRING"
      [] valueAt(vals, key, name).type = "REG_BINARY" -> "kBINARY"

\* readBinaryOrString, lines 263-294: NULL unless the value has the type
\* asked for and a non-zero size; a string's buffer is size + 2 bytes with
\* buffer[size] = 0 and its last byte never written (left off here).
readBinaryOrString(vals, key, name, type) ==
    LET v == valueAt(vals, key, name)
    IN  IF v.type # type \/ Len(v.data) = 0 THEN NULL
        ELSE IF type = "REG_SZ" THEN v.data \o <<Zero>> ELSE v.data

\* std::wstring((wchar_t*)buffer): the wide characters up to the first
\* zero one.  The stored bytes pair up as (character, 0) and (0, 0); a
\* character that reaches the unwritten byte or past the buffer is
\* undefined, and may be zero (the string ends) or anything (Garbage).
RECURSIVE decodeWide(_, _)
decodeWide(buffer, i) ==
    IF i + 1 > Len(buffer) THEN {<<>>, <<Garbage>>}
    ELSE IF buffer[i] = Zero THEN {<<>>}
    ELSE {<<buffer[i]>> \o rest : rest \in decodeWide(buffer, i + 2)}

\* readValueString, lines 296-306: every string the read may give.
readValueString(vals, key, name) ==
    LET buffer == readBinaryOrString(vals, key, name, "REG_SZ")
    IN  IF buffer = NULL THEN {<<>>} ELSE decodeWide(buffer, 1)

\* readValueBinary, lines 308-312.
readValueBinary(vals, key, name) == readBinaryOrString(vals, key, name, "REG_BINARY")

\* readValueInt, lines 314-325: 0 unless the value is a DWORD.
readValueInt(vals, key, name) ==
    LET v == valueAt(vals, key, name)
    IN  IF v.type # "REG_DWORD" THEN 0 ELSE v.data
=============================================================================
