------------------------------- MODULE KeyInfo -------------------------------
(***************************************************************************)
(* IKeyState::KeyInfo's destination list (lib/synergy/IKeyState.cpp): the *)
(* set of screens a key goes to is stored as one string, the names each    *)
(* followed by ':' after a leading ':' (":a:b:"), or "*" for all screens,  *)
(* or "" for the default.  join builds it, split reads it back, contains   *)
(* asks whether a screen is in it.                                         *)
(*                                                                         *)
(* A string is a sequence of one-character strings; names are ordered as  *)
(* std::set<nstring> orders them, by their characters' codes.              *)
(***************************************************************************)
EXTENDS Integers, Sequences, SequencesExt

\* Character codes, for the order of std::set<nstring>.
Code == [c \in {"*", ":", "a", "b"} |->
            CASE c = "*" -> 42 [] c = ":" -> 58 [] c = "a" -> 97 [] c = "b" -> 98]

\* std::basic_string's operator<.
RECURSIVE NameLess(_, _)
NameLess(x, y) == CASE y = <<>> -> FALSE
                    [] x = <<>> -> TRUE
                    [] Code[Head(x)] # Code[Head(y)] -> Code[Head(x)] < Code[Head(y)]
                    [] OTHER -> NameLess(Tail(x), Tail(y))

Star == <<"*">>

\* isDefault(screens): NULL or empty.
isDefault(screens) == screens = <<>>

\* The loop of join over the names in set order: "*" replaces the string
\* and ends it; any other name is appended with its ':' after a first ':'.
RECURSIVE JoinLoop(_, _)
JoinLoop(names, screens) ==
    CASE names = <<>> -> screens
      [] Head(names) = Star -> Star
      [] OTHER -> JoinLoop(Tail(names),
                           (IF screens = <<>> THEN <<":">> ELSE screens)
                               \o Head(names) \o <<":">>)

\* join(destinations).
join(destinations) == JoinLoop(SetToSortSeq(destinations, NameLess), <<>>)

\* strstr(s, name): 0-based index of the first occurrence, or -1 (NULL).
\* An empty name is found at 0.
Strstr(s, name) ==
    LET hits == {i \in 0..(Len(s) - Len(name)) : SubSeq(s, i + 1, i + Len(name)) = name}
    IN  IF hits = {} THEN -1 ELSE Min(hits)

\* contains(screens, name): the first occurrence of name, if it is not at
\* the start, must be followed by ':' (past the end is the terminating 0).
contains(screens, name) ==
    LET match == Strstr(screens, name)
        after == match + Len(name)
    IN  CASE isDefault(screens) -> FALSE
          [] screens[1] = "*" -> TRUE
          [] match > 0 -> after < Len(screens) /\ screens[after + 1] = ":"
          [] OTHER -> FALSE

\* The loop of split from i = screens + 1: each name runs to the next ':'.
\* strchr always finds one in a string join built.
RECURSIVE SplitLoop(_, _, _)
SplitLoop(screens, i, dst) ==
    IF i >= Len(screens) THEN dst
    ELSE LET j == Min({k \in i..(Len(screens) - 1) : screens[k + 1] = ":"})
         IN  SplitLoop(screens, j + 1, dst \cup {SubSeq(screens, i + 1, j)})

\* Mutant of split: the loop starts at screens, not screens + 1.
splitFromStart(screens) ==
    CASE isDefault(screens) -> {}
      [] screens[1] = "*" -> {Star}
      [] OTHER -> SplitLoop(screens, 0, {})

\* split(screens, dst).
split(screens) ==
    CASE isDefault(screens) -> {}
      [] screens[1] = "*" -> {Star}
      [] OTHER -> SplitLoop(screens, 1, {})
=============================================================================
