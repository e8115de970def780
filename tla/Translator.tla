----------------------------- MODULE Translator -----------------------------
(***************************************************************************)
(* The two languages of the application (apps/web/lib/i18n): t() gives the *)
(* texts of the catalogue in the language of the render, and everything    *)
(* else is written in Portuguese and translated in the document itself, by *)
(* an observer that remembers the first text it saw in each node.          *)
(*                                                                         *)
(* A node is a text node or one of the translated attributes of an         *)
(* element: both go through the same steps.                                *)
(***************************************************************************)
EXTENDS Naturals

CONSTANTS
  TextNodes,
  Keyed,       \* the nodes that t() writes; the others are Portuguese in the source
  Words,
  Dictionary,  \* the words legacy-messages.ts translates
  NoText,
  NoSettings   \* no GET of the organisation is under way

Locales == {"pt-PT", "en-US"}
Text == [word : Words, in : Locales]

ASSUME TextAssumption == NoText \notin Text /\ NoSettings \notin Locales

VARIABLES
  locale,      \* the state of I18nProvider
  rendered,    \* the locale of the last render
  observing,   \* the locale of the effect that observes the document
  storedLocale,\* localStorage
  said,        \* what the page last rendered in each node (React's own record)
  written,     \* nodeValue
  firstSeen,   \* originalText
  records,     \* the nodes with mutation records to be delivered
  signedIn,    \* authenticated
  settingsRead,\* the locale the GET of the organisation has read
  organisation,\* SystemSettings.locale
  retold,      \* nodes rewritten in place after they were first seen (ghost)
  outdated     \* the GET under way was read before a save (ghost)

translatorVars == <<locale, rendered, observing, storedLocale, said, written, firstSeen, records,
                    signedIn, settingsRead, organisation, retold, outdated>>
documentVars == <<said, written, firstSeen, records, retold>>

\* translateLegacyText: Portuguese is left as it is, and so is what the
\* dictionary does not know, English texts included.
Translated(l, text) ==
  IF l = "en-US" /\ text.word \in Dictionary THEN [text EXCEPT !.in = "en-US"] ELSE text

Mounted(n) == said[n] # NoText

TranslatorInit ==
  /\ organisation \in Locales /\ storedLocale \in Locales \cup {NoText}
  /\ locale = "pt-PT" /\ rendered = "pt-PT" /\ observing = "pt-PT"
  /\ said = [n \in TextNodes |-> NoText] /\ written = said /\ firstSeen = said
  /\ records = {} /\ signedIn = FALSE /\ settingsRead = NoSettings
  /\ retold = {} /\ outdated = FALSE

-----------------------------------------------------------------------------
(* The document *)

\* translateNode, for the nodes given: from the text first seen.
Source(n) == IF firstSeen[n] = NoText THEN written[n] ELSE firstSeen[n]
Translates(l, nodes) ==
  /\ firstSeen' = [n \in TextNodes |-> IF n \in nodes THEN Source(n) ELSE firstSeen[n]]
  /\ written' = [n \in TextNodes |-> IF n \in nodes THEN Translated(l, Source(n)) ELSE written[n]]

\* The page adds a node, a new one, or takes it away.
Mount(n, w) ==
  /\ ~Mounted(n) /\ rendered = locale
  /\ LET text == [word |-> w, in |-> IF n \in Keyed THEN locale ELSE "pt-PT"]
     IN /\ said' = [said EXCEPT ![n] = text] /\ written' = [written EXCEPT ![n] = text]
  /\ records' = records \cup {n}
  /\ UNCHANGED <<locale, rendered, observing, storedLocale, firstSeen, signedIn, settingsRead,
                 organisation, retold, outdated>>
Unmount(n) ==
  /\ Mounted(n)
  /\ said' = [said EXCEPT ![n] = NoText] /\ written' = [written EXCEPT ![n] = NoText]
  /\ firstSeen' = [firstSeen EXCEPT ![n] = NoText]
  /\ records' = records \ {n} /\ retold' = retold \ {n}
  /\ UNCHANGED <<locale, rendered, observing, storedLocale, signedIn, settingsRead, organisation,
                 outdated>>

\* React writes a node again when what it says is not what it last said.
Rewrites(new) ==
  LET changed == {n \in TextNodes : new[n] # said[n]}
  IN /\ said' = new
     /\ written' = [n \in TextNodes |-> IF n \in changed THEN new[n] ELSE written[n]]
     /\ records' = records \cup changed
     /\ retold' = retold \cup {n \in changed : firstSeen[n] # NoText}
     /\ UNCHANGED firstSeen
Retell(n, w) ==
  /\ Mounted(n) /\ said[n].word # w /\ rendered = locale
  /\ Rewrites([said EXCEPT ![n].word = w])
  /\ UNCHANGED <<locale, rendered, observing, storedLocale, signedIn, settingsRead, organisation,
                 outdated>>

\* A new language: first the render, then the effect.
Render ==
  /\ rendered # locale
  /\ rendered' = locale
  /\ Rewrites([n \in TextNodes |-> IF n \in Keyed /\ Mounted(n) THEN [said[n] EXCEPT !.in = locale]
                                                               ELSE said[n]])
  /\ UNCHANGED <<locale, observing, storedLocale, signedIn, settingsRead, organisation, outdated>>

\* disconnect drops the records; the whole body is translated before the new
\* observer looks.
Reobserve ==
  /\ rendered = locale /\ observing # locale
  /\ observing' = locale /\ records' = {}
  /\ Translates(locale, {n \in TextNodes : Mounted(n)})
  /\ UNCHANGED <<locale, rendered, storedLocale, said, signedIn, settingsRead, organisation, retold,
                 outdated>>

\* The observer's callback: its own writes bring it back once more.
ObserverRuns ==
  /\ records # {}
  /\ Translates(observing, records)
  /\ records' = {n \in records : written'[n] # written[n]}
  /\ UNCHANGED <<locale, rendered, observing, storedLocale, said, signedIn, settingsRead,
                 organisation, retold, outdated>>

-----------------------------------------------------------------------------
(* The choice of language *)

SetLocale(l) == locale' = l /\ storedLocale' = l

\* On loading: what this browser kept.
Restore ==
  /\ storedLocale # NoText /\ ~signedIn
  /\ locale' = storedLocale
  /\ UNCHANGED <<rendered, observing, storedLocale, signedIn, settingsRead, organisation, outdated>>
  /\ UNCHANGED documentVars

\* The session is known: the organisation is asked, and its answer counts while
\* the session lasts.
SignInReads ==
  /\ ~signedIn /\ signedIn' = TRUE /\ settingsRead' = organisation /\ outdated' = FALSE
  /\ UNCHANGED <<locale, rendered, observing, storedLocale, organisation>>
  /\ UNCHANGED documentVars
SettingsArrive ==
  /\ settingsRead # NoSettings
  /\ SetLocale(settingsRead) /\ settingsRead' = NoSettings
  /\ UNCHANGED <<rendered, observing, signedIn, organisation, outdated>>
  /\ UNCHANGED documentVars
SettingsLost ==
  /\ settingsRead # NoSettings /\ settingsRead' = NoSettings /\ outdated' = TRUE
  /\ UNCHANGED <<locale, rendered, observing, storedLocale, signedIn, organisation>>
  /\ UNCHANGED documentVars
SignOut ==
  /\ signedIn /\ signedIn' = FALSE /\ settingsRead' = NoSettings
  /\ outdated' = (outdated \/ settingsRead # NoSettings)
  /\ UNCHANGED <<locale, rendered, observing, storedLocale, organisation>>
  /\ UNCHANGED documentVars

\* saveOrganization, of the settings page.
SaveLanguage(l) ==
  /\ signedIn /\ organisation' = l /\ SetLocale(l)
  /\ outdated' = (settingsRead # NoSettings)
  /\ UNCHANGED <<rendered, observing, signedIn, settingsRead>>
  /\ UNCHANGED documentVars

TranslatorNext ==
  \/ Render \/ Reobserve \/ ObserverRuns \/ Restore \/ SignInReads \/ SettingsArrive \/ SettingsLost
  \/ SignOut
  \/ \E l \in Locales : SaveLanguage(l)
  \/ \E n \in TextNodes : Unmount(n) \/ \E w \in Words : Mount(n, w) \/ Retell(n, w)

-----------------------------------------------------------------------------
(* Properties *)

TranslatorTypeOK ==
  /\ {locale, rendered, observing, organisation} \subseteq Locales
  /\ storedLocale \in Locales \cup {NoText} /\ settingsRead \in Locales \cup {NoSettings}
  /\ {said, written, firstSeen} \subseteq [TextNodes -> Text \cup {NoText}]
  /\ records \cup retold \subseteq TextNodes /\ {signedIn, outdated} \subseteq BOOLEAN

\* Once the observer has caught up, a node that was not rewritten in place reads,
\* in the language chosen, what the page says: however often the language was
\* switched before, and with records dropped on the way.
PageIsInOneLanguage ==
  records = {} /\ observing = locale /\ rendered = locale =>
    \A n \in TextNodes \ retold : Mounted(n) => written[n] = Translated(locale, said[n])

\* In a session the language is the organisation's, unless its settings are still
\* awaited, were lost, or were read before a save and came after it.
LanguageIsKept ==
  signedIn /\ ~outdated /\ settingsRead = NoSettings => locale = organisation /\ storedLocale = locale
=============================================================================
