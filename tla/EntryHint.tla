------------------------------ MODULE EntryHint ------------------------------
(***************************************************************************)
(* What one code-cache entry promises to the scan that looks it up         *)
(* (acorn_codecache.h, "a hint, never an authority"): a lookup either      *)
(* misses, which is always allowed, or returns the one element the entry   *)
(* holds at that instant.  An update takes the entry away and then brings  *)
(* it back with its new content; nothing is served in between.             *)
(***************************************************************************)

CONSTANTS
  Readers,    \* backends that look the entry up
  Payloads,   \* what an element can be: heaptid, nbrtid, level, filter, code
  Absent,     \* no live element: never loaded, or vacuumed
  Busy,       \* an update is in progress
  Waiting,    \* a lookup that has not answered yet
  Miss        \* a lookup that sends its scan to the element page

VARIABLES
  content,    \* the element the entry holds
  answer      \* answer[r]: what r's current or last lookup returned

hintVars == <<content, answer>>

Init ==
  /\ content \in Payloads \cup {Absent}
  /\ answer = [r \in Readers |-> Miss]

BeginUpdate ==
  /\ content # Busy
  /\ content' = Busy
  /\ UNCHANGED answer

EndUpdate ==
  /\ content = Busy
  /\ content' \in Payloads \cup {Absent}
  /\ UNCHANGED answer

Ask(r) ==
  /\ answer[r] # Waiting
  /\ answer' = [answer EXCEPT ![r] = Waiting]
  /\ UNCHANGED content

AnswerHit(r) ==
  /\ answer[r] = Waiting
  /\ content \in Payloads
  /\ answer' = [answer EXCEPT ![r] = content]
  /\ UNCHANGED content

AnswerMiss(r) ==
  /\ answer[r] = Waiting
  /\ answer' = [answer EXCEPT ![r] = Miss]
  /\ UNCHANGED content

Next ==
  \/ BeginUpdate
  \/ EndUpdate
  \/ \E r \in Readers : Ask(r) \/ AnswerHit(r) \/ AnswerMiss(r)

Spec == Init /\ [][Next]_hintVars
=============================================================================
