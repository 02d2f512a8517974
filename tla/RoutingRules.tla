---------------------------- MODULE RoutingRules -----------------------------
(* What the rules file means: `routing/rules.rs`, RoutingEngine::evaluate() *)
(* of `routing/engine.rs`, and the microphone policy of `policy/mod.rs`,    *)
(* which uses the same patterns.  MCAudioManager gives AudioManager the     *)
(* rules that a rules file yields here.                                     *)
(*                                                                          *)
(* A text is a sequence of characters; an Option is a set of at most one    *)
(* element.  Abstracted: the syntax of the two files.                       *)
EXTENDS Integers, Sequences

-----------------------------------------------------------------------------
(* Patterns                                                                 *)

LowerOf == [A |-> "a", B |-> "b"]
Lower(s) == [i \in DOMAIN s |-> IF s[i] \in DOMAIN LowerOf THEN LowerOf[s[i]] ELSE s[i]]

(* glob_match(): one pass over the text.  At a mismatch it returns to the   *)
(* last star of the pattern and lets it take one character more.            *)
NoStar == 0
Places(p, t) ==
  {at \in [pi : 1 .. Len(p) + 1, ti : 1 .. Len(t) + 1, star : 0 .. Len(p), from : 0 .. Len(t) + 1] :
     at.star < at.pi /\ at.from <= at.ti}

Fits(c, d) == c \in {"?", d}
Advance(at) == [pi |-> at.pi + 1, ti |-> at.ti + 1, star |-> at.star, from |-> at.from]
TakeNone(at) == [pi |-> at.pi + 1, ti |-> at.ti, star |-> at.pi, from |-> at.ti]
RetryOnce(at) == [pi |-> at.star + 1, ti |-> at.from + 1, star |-> NoStar, from |-> 0]  \* mutant
Retry(at) == [pi |-> at.star + 1, ti |-> at.from + 1, star |-> at.star, from |-> at.from + 1]

GlobMatch(p, t) ==
  LET run[at \in Places(p, t)] ==
        IF at.ti > Len(t) THEN \A i \in at.pi .. Len(p) : p[i] = "*"
        ELSE IF at.pi <= Len(p) /\ Fits(p[at.pi], t[at.ti]) THEN run[Advance(at)]
        ELSE IF at.pi <= Len(p) /\ p[at.pi] = "*" THEN run[TakeNone(at)]
        ELSE at.star # NoStar /\ run[Retry(at)]
  IN run[[pi |-> 1, ti |-> 1, star |-> NoStar, from |-> 0]]

GlobMatchCI(p, t) == GlobMatch(Lower(p), Lower(t))

-----------------------------------------------------------------------------
(* Rules.  A rule's `match` is a function from the conditions it states to  *)
(* their patterns.                                                          *)

DeviceConditions == {"kind", "bus", "name", "id"}

RuleMatches(m, ctx) ==
  /\ "profile" \in DOMAIN m => GlobMatchCI(m["profile"], ctx.profile)
  /\ "application" \in DOMAIN m =>
       \E s \in ctx.stream : GlobMatchCI(m["application"], s.application)
  /\ DeviceConditions \cap DOMAIN m # {} =>
       \E d \in ctx.device : \A c \in DeviceConditions \cap DOMAIN m :
         GlobMatchCI(m[c], d.conditions[c])

ResolveTarget(to, ctx) == IF to = "trigger" THEN {d.key : d \in ctx.device} ELSE {to}

(* "action skipped - no trigger device to resolve 'trigger' target", or no  *)
(* stream to move.                                                          *)
ResolveAction(spec, ctx) ==
  LET Resolved(to, remember, stream) ==
        [act |-> spec.act, dev |-> to, remember |-> remember, stream |-> stream]
  IN CASE spec.act \in {"set-output", "set-input"} ->
            {Resolved(to, spec.remember, 0) : to \in ResolveTarget(spec.to, ctx)}
       [] spec.act = "move-stream" -> {Resolved(spec.to, FALSE, s.key) : s \in ctx.stream}
       [] OTHER -> {Resolved(spec.to, FALSE, 0)}

AsSequence(option) == IF option = {} THEN <<>> ELSE <<CHOOSE x \in option : TRUE>>
Actions(rule, ctx) ==
  LET out[n \in 0 .. Len(rule.action)] ==
        IF n = 0 THEN <<>> ELSE out[n - 1] \o AsSequence(ResolveAction(rule.action[n], ctx))
  IN out[Len(rule.action)]

Fires(rule, ctx) == rule.enabled /\ rule.when = ctx.trigger /\ RuleMatches(rule.match, ctx)

(* The rules in file order; one with `stop` is the last.                    *)
StopAnyway(rule, ctx) == rule.stop                           \* mutant
Stops(rule, ctx) == rule.stop /\ Fires(rule, ctx)

Evaluate(rules, ctx) ==
  LET after[n \in 0 .. Len(rules)] ==
        IF n = 0 THEN [out |-> <<>>, over |-> FALSE]
        ELSE IF after[n - 1].over THEN after[n - 1]
        ELSE [out |-> IF Fires(rules[n], ctx) THEN after[n - 1].out \o Actions(rules[n], ctx)
                      ELSE after[n - 1].out,
              over |-> Stops(rules[n], ctx)]
  IN after[Len(rules)].out

(* check_microphone(): the first [[app]] that matches decides.              *)
CheckMicrophone(policy, application) ==
  LET matching == {i \in DOMAIN policy.app : GlobMatchCI(policy.app[i].name, application)}
  IN IF matching = {} THEN policy.default
     ELSE policy.app[CHOOSE i \in matching : \A j \in matching : i <= j].allow

-----------------------------------------------------------------------------
(* Properties                                                               *)

Texts(chars, n) == UNION {[1 .. k -> chars] : k \in 0 .. n}

(* What the documentation says of a pattern: `?` stands for one character,  *)
(* `*` for any number of them.  The characters of the pattern can be laid   *)
(* along the text, the i-th one from begin[i] on.                           *)
Covers(c, t, first, next) ==
  IF c = "*" THEN first <= next
  ELSE next = first + 1 /\ first <= Len(t) /\ Fits(c, t[first])
Stands(p, t) ==
  \E begin \in [1 .. Len(p) + 1 -> 1 .. Len(t) + 1] :
    /\ begin[1] = 1 /\ begin[Len(p) + 1] = Len(t) + 1
    /\ \A i \in 1 .. Len(p) : Covers(p[i], t, begin[i], begin[i + 1])

(* The single backtracking point of the matcher is enough: it agrees with   *)
(* the meaning of the pattern on every pattern and text, whatever stars and *)
(* repeated letters there are, and whatever the case.  A text with a star   *)
(* of its own is left out: the matcher takes the pattern's star for that    *)
(* character, and `*` does not match `*a`.                                  *)
WildcardsMatch ==
  \A p \in Texts({"a", "B", "?", "*"}, 4), t \in Texts({"A", "b"}, 4) :
    GlobMatchCI(p, t) = Stands(Lower(p), Lower(t))

(* The bounded rules files: a rule for headsets, one for the streams of an  *)
(* application, on any device or on a headset, one that fires always, one   *)
(* that stops, one that is off; and triggers with or without a device and a *)
(* stream.                                                                  *)
SomeRule(when, match, to, stop, enabled) ==
  [when |-> when, match |-> match, stop |-> stop, enabled |-> enabled,
   action |-> <<[act |-> "set-output", to |-> to, remember |-> TRUE],
                [act |-> "move-stream", to |-> "hdmi", remember |-> FALSE]>>]
SomeRules ==
  { SomeRule("added", [kind |-> <<"a", "*">>], "trigger", FALSE, TRUE),
    SomeRule("added", [kind |-> <<"a", "*">>, application |-> <<"b">>], "trigger", TRUE, TRUE),
    SomeRule("added", [application |-> <<"?">>], "usb", FALSE, TRUE),
    SomeRule("added", [profile |-> <<"A">>], "trigger", TRUE, TRUE),
    SomeRule("removed", [profile |-> <<"*">>], "usb", TRUE, TRUE),
    SomeRule("added", [profile |-> <<"*">>], "usb", TRUE, FALSE) }
SomeContexts ==
  [ trigger : {"added", "removed"}, profile : {<<"a">>, <<"b">>},
    device : { {}, {[key |-> "jack", conditions |-> [kind |-> <<"a", "b">>]]},
               {[key |-> "hdmi", conditions |-> [kind |-> <<"b">>]]} },
    stream : {{}, {[key |-> 1, application |-> <<"b">>]}} ]
SomeFiles == UNION {[1 .. n -> SomeRules] : n \in 0 .. 3}

(* The rules that fire are those that match and follow no rule that fired   *)
(* and stops; all their actions are executed, in file order, those without  *)
(* a device or a stream to act on left out.  A microphone policy means what *)
(* a rules file does in which every rule stops.                             *)
Fired(rules, ctx) ==
  {i \in DOMAIN rules : /\ Fires(rules[i], ctx)
                        /\ \A j \in 1 .. i - 1 : Fires(rules[j], ctx) => ~rules[j].stop}
InOrder(rules, ctx) ==
  LET upTo[n \in 0 .. Len(rules)] ==
        IF n = 0 THEN <<>>
        ELSE IF n \in Fired(rules, ctx) THEN upTo[n - 1] \o Actions(rules[n], ctx)
        ELSE upTo[n - 1]
  IN upTo[Len(rules)]

AppRules == [name : {<<"*">>, <<"a", "*">>, <<"A", "B">>}, allow : BOOLEAN]
AsRule(app) ==
  [ when |-> "open", match |-> [application |-> app.name], stop |-> TRUE, enabled |-> TRUE,
    action |-> <<[act |-> "allow", to |-> app.allow, remember |-> FALSE]>> ]
Opening(application) ==
  [trigger |-> "open", profile |-> <<>>, device |-> {}, stream |-> {[key |-> 1, application |-> application]}]
PolicyIsRules(app, default, application) ==
  LET answer == Evaluate([i \in DOMAIN app |-> AsRule(app[i])], Opening(application))
  IN CheckMicrophone([app |-> app, default |-> default], application) =
       (IF answer = <<>> THEN default ELSE answer[1].dev)

RulesAgree ==
  /\ \A rules \in SomeFiles, ctx \in SomeContexts : Evaluate(rules, ctx) = InOrder(rules, ctx)
  /\ \A app \in UNION {[1 .. n -> AppRules] : n \in 0 .. 2}, default \in BOOLEAN,
        application \in Texts({"a", "B"}, 2) : PolicyIsRules(app, default, application)
=============================================================================
