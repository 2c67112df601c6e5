--------------------------- MODULE LocaleService ----------------------------
(***************************************************************************)
(* The system's locale (src/src/services/locale/locale_service.cpp).       *)
(*                                                                         *)
(* systemd's locale service owns it.  The daemon caches it when it is      *)
(* first asked for, by a blocking call whose answer overtakes the signals  *)
(* that wait in the connection's queue, and replaces it with each signal.  *)
(* A list without a LANG= entry is an exception: an error to a caller, and *)
(* swallowed when a signal brings it.                                      *)
(***************************************************************************)
EXTENDS Naturals, Sequences

CONSTANTS
  Locales,    \* values of LANG=
  MaxChanges  \* bound on the changes of the locale

VARIABLES
  current,  \* the value locale1 has, or NoLang
  queue,    \* PropertiesChanged signals on the way
  cached,   \* _currentLocale, or Unset
  told,     \* history: the value a client knows, from Get or PropertiesChanged
  changes   \* changes so far

vars == <<current, queue, cached, told, changes>>

NoLang == "no LANG="
Unset == ""

Init ==
  /\ current \in Locales \cup {NoLang}
  /\ queue = <<>> /\ cached = Unset /\ told = Unset /\ changes = 0
-----------------------------------------------------------------------------
\* locale1 changes it, for another program or for SetLocale, whose caller gets
\* no reply.
SetLocale(l) ==
  /\ changes < MaxChanges /\ l # current
  /\ current' = l /\ changes' = changes + 1
  /\ queue' = Append(queue, l)
  /\ UNCHANGED <<cached, told>>

\* A value that is cached is not asked for again.
Fetched == IF cached = Unset THEN current ELSE cached

\* The Locale property is read.
GetLocale ==
  /\ cached # Unset \/ current # NoLang
  /\ cached' = Fetched /\ told' = Fetched
  /\ UNCHANGED <<current, queue, changes>>

\* ReadFreedesktopLocale, or its exception.
Replaced(l) == IF l = NoLang THEN cached ELSE l

\* The signal is handled; OnLocaleChanged cannot prevent the announcement.
LocaleChanged ==
  /\ queue # <<>>
  /\ cached' = Replaced(Head(queue))
  /\ told' = IF Head(queue) = NoLang THEN told ELSE cached'
  /\ queue' = Tail(queue)
  /\ UNCHANGED <<current, changes>>

Next ==
  \/ \E l \in Locales \cup {NoLang} : SetLocale(l)
  \/ GetLocale \/ LocaleChanged

Spec == Init /\ [][Next]_vars
-----------------------------------------------------------------------------
(* Properties *)

\* Every variable has its type.
TypeOK ==
  /\ current \in Locales \cup {NoLang}
  /\ cached \in Locales \cup {Unset} /\ told \in Locales \cup {Unset}

\* The cache and its readers agree, and with locale1 once its signals are
\* handled, although an answer may overtake them; a list without LANG= changes
\* nothing.
LocaleMirrored ==
  /\ told \in {cached, Unset}
  /\ queue = <<>> /\ current # NoLang => cached \in {current, Unset}
=============================================================================
