------------------------------ MODULE DragInfo ------------------------------
(***************************************************************************)
(* DragInformation (lib/synergy/DragInformation.cpp): setupDragInfo        *)
(* writes the dragged files as "<path>,<size>," for each file, and         *)
(* parseDragInfo reads fileNum files back from that text, keeping the      *)
(* name after the last path separator.                                     *)
(*                                                                         *)
(* Offsets are size_t: npos is SizeMod - 1 and differences wrap modulo     *)
(* SizeMod.  SizeMod is 2^30 rather than 2^64 (TLC's integers are 32-bit); *)
(* every comparison and substr below behaves the same for any modulus      *)
(* larger than the text.                                                   *)
(***************************************************************************)
EXTENDS Integers, Sequences, FiniteSetsExt

SizeMod == 2^30
NPos    == SizeMod - 1

\* size_t subtraction and addition.
Minus(a, b) == (a - b) % SizeMod
Plus(a, b)  == (a + b) % SizeMod

\* data.find(c, from): first offset >= from holding c, or npos.
FindChar(s, c, from) ==
    LET hits == {i \in from..(Len(s) - 1) : s[i + 1] = c}
    IN  IF hits = {} THEN NPos ELSE Min(hits)

\* data.find_last_of(c, pos): last offset <= pos holding c, or npos; pos
\* npos (or past the end) searches the whole string.
FindLastOf(s, c, pos) ==
    LET hits == {i \in 0..(Len(s) - 1) : i <= pos /\ s[i + 1] = c}
    IN  IF hits = {} THEN NPos ELSE Max(hits)

\* data.substr(pos, n): std::out_of_range when pos is past the end.
SubstrDefined(s, pos) == pos <= Len(s)
Substr(s, pos, n) ==
    SubSeq(s, pos + 1, IF n >= Len(s) - pos THEN Len(s) ELSE pos + n)

DigitValue == [d \in {"0", "1", "2"} |-> CASE d = "0" -> 0 [] d = "1" -> 1 [] d = "2" -> 2]

\* stringToNum: istringstream >> size_t reads the leading digits; with none
\* the extraction fails and stores 0.
RECURSIVE StringToNum(_, _)
StringToNum(str, acc) ==
    IF str # <<>> /\ Head(str) \in DOMAIN DigitValue
    THEN StringToNum(Tail(str), 10 * acc + DigitValue[Head(str)])
    ELSE acc

\* setupDragInfo(fileList, output): getFileSize's text of each size.
RECURSIVE NumText(_)
NumText(n) == IF n < 10 THEN <<CHOOSE d \in DOMAIN DigitValue : DigitValue[d] = n>>
              ELSE NumText(n \div 10) \o NumText(n % 10)

RECURSIVE setupDragInfo(_)
setupDragInfo(files) ==
    IF files = <<>> THEN <<>>
    ELSE Head(files).path \o <<",">> \o NumText(Head(files).size) \o <<",">>
            \o setupDragInfo(Tail(files))

\* The while loop of parseDragInfo.  list holds [name, size] records, a new
\* DragInformation having size 0.  "thrown" is set when substr or
\* dragFileList.at(index) throws std::out_of_range.
RECURSIVE ParseLoop(_, _, _, _, _, _)
ParseLoop(data, slash, fileNum, index, startPos, list) ==
    IF index >= fileNum THEN [thrown |-> FALSE, list |-> list]
    ELSE
    LET f1   == FindChar(data, ",", startPos)
        f2   == FindLastOf(data, slash, f1)
        name == Minus(f1, f2) > 1
        list1 == IF name
                 THEN Append(list, [name |-> Substr(data, Plus(f2, 1), Minus(Minus(f1, f2), 1)),
                                    size |-> 0])
                 ELSE list
        start1 == Plus(f1, 1)
        g2   == FindChar(data, ",", start1)
        sized == Minus(g2, f1) > 1
        size == StringToNum(Substr(data, Plus(f1, 1), Minus(Minus(g2, f1), 1)), 0)
    IN  CASE f1 = startPos -> [thrown |-> FALSE, list |-> list]
          [] name /\ ~SubstrDefined(data, Plus(f2, 1)) -> [thrown |-> TRUE, list |-> list]
          [] sized /\ (~SubstrDefined(data, Plus(f1, 1)) \/ index >= Len(list1)) ->
                [thrown |-> TRUE, list |-> list1]
          [] OTHER ->
                ParseLoop(data, slash, fileNum, index + 1, Plus(f1, 1),
                          IF sized THEN [list1 EXCEPT ![index + 1].size = size]
                                   ELSE list1)

\* parseDragInfo(dragFileList, fileNum, data): "/" is the separator when
\* the text holds one, "\" otherwise.
parseDragInfo(fileNum, data) ==
    LET slash == IF FindChar(data, "/", 0) # NPos THEN "/" ELSE "\\"
    IN  ParseLoop(data, slash, fileNum, 0, 0, <<>>)

\* The name after the last separator of either kind.
BaseName(path) ==
    LET seps == {i \in DOMAIN path : path[i] \in {"/", "\\"}}
    IN  IF seps = {} THEN path ELSE SubSeq(path, Max(seps) + 1, Len(path))
=============================================================================
