------------------------------ MODULE ThemeTabs ------------------------------
(* The colour theme of the administration: each tab has the theme chosen in *)
(* it, stored there or chosen in another tab, and shows a light or a dark   *)
(* page, by the system's preference if it is asked to.  The storage may be  *)
(* denied to the site, may refuse a write, and tells the other tabs of a    *)
(* change, a while later.                                                   *)
EXTENDS Naturals, Sequences

CONSTANTS
  Tabs,
  Nobody,
  MaxWrites,   \* bound on the choices and clearings
  MaxTurns     \* bound on the changes of the system's preference

\* What is asked of the constants.
ThemeAssumption == Nobody \notin Tabs /\ MaxWrites \in Nat /\ MaxTurns \in Nat

Shades == {"light", "dark"}
Themes == Shades \cup {"system"}
Absent == "absent"
Default == "system"      \* the layout's defaultTheme

VARIABLES
  denied,     \* the site has no storage
  stored,
  author,     \* the tab whose choice is stored
  unsaved,    \* the tabs whose choice is not
  prefers,    \* prefers-color-scheme
  writes, turns,
  mounted,
  theme,      \* each tab's theme,
  applied,    \* the theme its effect has run for, which decides what it listens to,
  shown,      \* and the shade of its page
  news,       \* the storage events a tab is still to get: the value at each
  turned      \* the preference has changed and the tab is to be told

system == <<denied, prefers, turns>>
storage == <<stored, author, unsaved, writes>>
pages == <<mounted, theme, applied, shown>>
vars == <<system, storage, pages, news, turned>>

(* The default, unless a theme is stored and can be read.                   *)
getStoredTheme == IF denied \/ stored = Absent THEN Default ELSE stored

resolveTheme(choice) == IF choice = "system" THEN prefers ELSE choice

Init ==
  /\ denied \in BOOLEAN
  /\ stored \in IF denied THEN {Absent} ELSE Themes \cup {Absent}
  /\ author = Nobody /\ unsaved = {} /\ prefers \in Shades /\ writes = 0 /\ turns = 0
  /\ mounted = {}
  /\ theme = [t \in Tabs |-> Default] /\ applied = [t \in Tabs |-> Absent]
  /\ shown = [t \in Tabs |-> "light"]
  /\ news = [t \in Tabs |-> <<>>] /\ turned = [t \in Tabs |-> FALSE]

-----------------------------------------------------------------------------
(* A tab.                                                                   *)

(* The provider mounts: its effects read the storage, start to listen and   *)
(* apply the default it was rendered with.                                  *)
Mount(t) ==
  /\ t \notin mounted /\ mounted' = mounted \cup {t}
  /\ theme' = [theme EXCEPT ![t] = getStoredTheme]
  /\ applied' = [applied EXCEPT ![t] = Default]
  /\ shown' = [shown EXCEPT ![t] = resolveTheme(Default)]
  /\ UNCHANGED <<system, storage, news, turned>>

(* The effect of a new theme; the old theme's listener is gone.             *)
Apply(t) ==
  /\ t \in mounted /\ applied[t] # theme[t]
  /\ applied' = [applied EXCEPT ![t] = theme[t]]
  /\ shown' = [shown EXCEPT ![t] = resolveTheme(theme[t])]
  /\ turned' = [turned EXCEPT ![t] = FALSE]
  /\ UNCHANGED <<system, storage, mounted, theme, news>>

(* The listener that was set for "system" applies that theme again.         *)
FollowSystem(t) ==
  /\ turned[t] /\ turned' = [turned EXCEPT ![t] = FALSE]
  /\ shown' = [shown EXCEPT ![t] = resolveTheme(applied[t])]
  /\ UNCHANGED <<system, storage, mounted, theme, applied, news>>

(* A storage event: what is stored now is read, whatever the event says.    *)
Hear(t) ==
  /\ news[t] # <<>> /\ news' = [news EXCEPT ![t] = Tail(@)]
  /\ unsaved' = unsaved \ {t}
  /\ theme' = [theme EXCEPT ![t] = getStoredTheme]
  /\ UNCHANGED <<system, stored, author, writes, mounted, applied, shown, turned>>

-----------------------------------------------------------------------------
(* What the storage tells the other tabs, if it has changed.                *)
Tell(t, value) ==
  news' = [u \in Tabs |-> IF u \in mounted \ {t} /\ stored # value
                            THEN Append(news[u], value) ELSE news[u]]

(* A choice that cannot be stored holds for the visit.                      *)
setTheme(t, choice) ==
  /\ \/ ~denied /\ stored' = choice /\ author' = t /\ unsaved' = unsaved \ {t} /\ Tell(t, choice)
     \/ unsaved' = unsaved \cup {t} /\ UNCHANGED <<stored, author, news>>
  /\ theme' = [theme EXCEPT ![t] = choice]

Choose(t) ==
  /\ t \in mounted /\ writes < MaxWrites /\ writes' = writes + 1
  /\ \E choice \in Themes : setTheme(t, choice)
  /\ UNCHANGED <<system, mounted, applied, shown, turned>>

(* Another page of the site clears the storage, which every tab is told.    *)
Clear ==
  /\ ~denied /\ writes < MaxWrites /\ writes' = writes + 1
  /\ stored' = Absent /\ author' = Nobody /\ Tell(Nobody, Absent)
  /\ UNCHANGED <<system, unsaved, pages, turned>>

(* The listener of a tab is told if it is there when the preference changes. *)
Turn ==
  /\ turns < MaxTurns /\ turns' = turns + 1
  /\ prefers' \in Shades \ {prefers}
  /\ turned' = [t \in Tabs |-> turned[t] \/ (t \in mounted /\ applied[t] = "system")]
  /\ UNCHANGED <<denied, storage, pages, news>>

Next ==
  \/ \E t \in Tabs : Mount(t) \/ Apply(t) \/ FollowSystem(t) \/ Hear(t) \/ Choose(t)
  \/ Clear \/ Turn

Spec == Init /\ [][Next]_vars

-----------------------------------------------------------------------------
(* Every variable has its type.                                             *)
TypeOK ==
  /\ denied \in BOOLEAN /\ prefers \in Shades
  /\ stored \in Themes \cup {Absent} /\ author \in Tabs \cup {Nobody}
  /\ unsaved \subseteq Tabs
  /\ mounted \subseteq Tabs /\ theme \in [Tabs -> Themes]
  /\ applied \in [Tabs -> Themes \cup {Absent}] /\ shown \in [Tabs -> Shades]
  /\ \A t \in Tabs : news[t] \in Seq(Themes \cup {Absent})
  /\ turned \in [Tabs -> BOOLEAN]
  /\ writes \in 0 .. MaxWrites /\ turns \in 0 .. MaxTurns

(* In every step, a tab whose choice is stored keeps it, though news of an  *)
(* older choice elsewhere reach it after it was made.  Unless the tab chose *)
(* again and could not store it.                                            *)
LastChoiceStays ==
  \A t \in Tabs :
       author = t /\ author' = t /\ stored' = stored /\ theme[t] = stored /\ writes' = writes
         => theme'[t] = stored

(* Once the news are out, all tabs have the theme that is stored, but those *)
(* that could not store their own.                                          *)
QuietTabsAgree ==
  (\A t \in mounted : news[t] = <<>>) => \A t \in mounted \ unsaved : theme[t] = getStoredTheme

(* A page whose tab has been told everything shows its theme: the shade the *)
(* system prefers, also if that changed just when the theme did.            *)
ShownIsChosen ==
  \A t \in mounted :
    applied[t] = theme[t] /\ ~turned[t] => shown[t] = resolveTheme(theme[t])

=============================================================================
