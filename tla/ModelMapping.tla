---------------------------- MODULE ModelMapping ----------------------------
(***************************************************************************)
(* Which models a provider serves and under which name it is asked for     *)
(* them: IsModelSupported, GetEffectiveModel, ValidateConfiguration and    *)
(* the wildcards of services/providerservice.go, as proxyHandler of        *)
(* services/providerrelay.go uses them for one provider.                   *)
(*                                                                         *)
(* A name is a sequence of characters.  The whitelist is the set of keys   *)
(* of SupportedModels: every entry counts, whatever its value, because     *)
(* the loop over the patterns looks at keys only.                          *)
(***************************************************************************)
EXTENDS Naturals, Sequences, FiniteSets, SequencesExt

CONSTANTS
  Chars,     \* of which names are made, the star among them
  Models,    \* the names clients ask for; <<>> where a request names none
  Providers  \* what the file may hold, edited by hand or saved

Star == "*"

ASSUME ModelsAssumption == Models \subseteq Seq(Chars)
ASSUME ProvidersAssumption ==
  \A p \in Providers :
    /\ p.providerType \in {"deepseek", "custom"}
    /\ p.supported \subseteq Seq(Chars)
    /\ \A k \in DOMAIN p.mapping : k \in Seq(Chars) /\ p.mapping[k] \in Seq(Chars)

VARIABLES
  provider,
  asked,     \* the model of the last request
  outcome    \* how it went on
relayed == <<provider, asked, outcome>>

-----------------------------------------------------------------------------
(* Wildcards.                                                              *)

Stars(pattern) == {i \in DOMAIN pattern : pattern[i] = Star}
HasStar(pattern) == Stars(pattern) # {}
OneStar(pattern) == Cardinality(Stars(pattern)) = 1
FirstStar(pattern) == CHOOSE i \in Stars(pattern) : \A j \in Stars(pattern) : i <= j
Before(pattern) == SubSeq(pattern, 1, FirstStar(pattern) - 1)
After(pattern) == SubSeq(pattern, FirstStar(pattern) + 1, Len(pattern))

\* More than one star matches nothing.
matchWildcard(pattern, text) ==
  IF ~HasStar(pattern) THEN pattern = text
  ELSE OneStar(pattern) /\ IsPrefix(Before(pattern), text) /\ IsSuffix(After(pattern), text)

\* No name has this character.
Panic == <<"panic">>

\* Mutation: the suffix stays in what the star stood for.
applyWildcardMapping_KeepsSuffix(pattern, replacement, input) ==
  IF ~HasStar(pattern) \/ ~HasStar(replacement) \/ ~matchWildcard(pattern, input) THEN replacement
  ELSE Before(replacement) \o SubSeq(input, Len(Before(pattern)) + 1, Len(input)) \o After(replacement)

\* Prefix and suffix may overlap in the input: the slice is then out of range.
applyWildcardMapping(pattern, replacement, input) ==
  IF ~HasStar(pattern) \/ ~HasStar(replacement) \/ ~matchWildcard(pattern, input) THEN replacement
  ELSE LET from == Len(Before(pattern))
           to == Len(input) - Len(After(pattern))
       IN IF to < from THEN Panic
          ELSE Before(replacement) \o SubSeq(input, from + 1, to) \o After(replacement)

-----------------------------------------------------------------------------
(* A provider p.                                                           *)

Listed(p, model) == \E pattern \in p.supported : matchWildcard(pattern, model)
Hits(p, model) == {pattern \in DOMAIN p.mapping : matchWildcard(pattern, model)}

IsModelSupported(p, model) ==
  \/ p.supported = {} /\ DOMAIN p.mapping = {}
  \/ Listed(p, model)
  \/ model \in DOMAIN p.mapping
  \/ Hits(p, model) # {}

\* One of these: the map is walked in no particular order.
GetEffectiveModel(p, model) ==
  IF model \in DOMAIN p.mapping THEN {p.mapping[model]}
  ELSE IF Hits(p, model) = {} THEN {model}
  ELSE {applyWildcardMapping(k, p.mapping[k], model) : k \in Hits(p, model)}

\* Mutation: names without a star are the only ones looked at.
ValidateConfiguration_ExactKeys(p) ==
  {k \in DOMAIN p.mapping :
     /\ p.providerType # "deepseek"
     /\ p.supported # {}
     /\ ~HasStar(k) /\ ~HasStar(p.mapping[k])
     /\ ~Listed(p, p.mapping[k])}

\* The entries of the mapping that are errors.
ValidateConfiguration(p) ==
  {k \in DOMAIN p.mapping :
     /\ p.providerType # "deepseek"
     /\ p.supported # {}
     /\ ~HasStar(p.mapping[k])
     /\ ~Listed(p, p.mapping[k])}

-----------------------------------------------------------------------------
(* The relay.                                                              *)

Waiting == <<"waiting">>
Skipped == <<"skipped">>

Eligible(p, model) == ValidateConfiguration(p) = {} /\ (model = <<>> \/ IsModelSupported(p, model))

SkipProvider ==
  \E model \in Models :
    /\ ~Eligible(provider, model)
    /\ asked' = model /\ outcome' = Skipped
    /\ UNCHANGED provider

\* A request that names no model is passed on as it is.
AskProvider ==
  \E model \in Models :
    /\ Eligible(provider, model)
    /\ asked' = model
    /\ IF model = <<>> THEN outcome' = model ELSE outcome' \in GetEffectiveModel(provider, model)
    /\ UNCHANGED provider

NothingAsked == provider \in Providers /\ asked = <<>> /\ outcome = Waiting

Relay == SkipProvider \/ AskProvider

RelaySpec == NothingAsked /\ [][Relay]_relayed

-----------------------------------------------------------------------------
(* Properties.                                                             *)

Sent == outcome \notin {Waiting, Skipped, Panic}

\* A provider with a whitelist is asked for listed models only, through whatever
\* entry of the mapping, in whatever order the map is walked.  What a star in a
\* target becomes is not looked at, and a deepseek provider's mapping is not.
ServedModelListed ==
  Sent /\ asked # <<>> /\ provider.supported # {} /\ provider.providerType # "deepseek" =>
    \/ Listed(provider, outcome)
    \/ \E k \in DOMAIN provider.mapping :
         HasStar(provider.mapping[k]) /\ (k = asked \/ matchWildcard(k, asked))

\* The first star of the target stands for what the star of key k does in model.
Carried(k, target, model, name) ==
  \E from, to \in 0..Len(model) :
    /\ model = Before(k) \o SubSeq(model, from + 1, to) \o After(k)
    /\ name = Before(target) \o SubSeq(model, from + 1, to) \o After(target)

Renamed(p, model, name) ==
  \E k \in DOMAIN p.mapping :
    /\ matchWildcard(k, model)
    /\ IF HasStar(p.mapping[k]) THEN Carried(k, p.mapping[k], model, name) ELSE name = p.mapping[k]

\* A model that is renamed through a wildcard gets the target of an entry it
\* matches, and the target's first star becomes what the key's star stands for:
\* the model is the key with that part in place of its star.
StarCarried ==
  Sent /\ asked \notin DOMAIN provider.mapping /\ outcome # asked =>
    Renamed(provider, asked, outcome)
============================================================================
