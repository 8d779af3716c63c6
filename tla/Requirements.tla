---------------------------- MODULE Requirements ----------------------------
(***************************************************************************)
(* The compiler of the logic database's requirements                       *)
(* (logic/requirements.py): a tree of and, or, template and resource nodes *)
(* becomes a rule over the collected items, with everything that is fixed  *)
(* for the seed (tricks, versions, negations, pregranted events) folded    *)
(* away on the way.  Beside it, the coarse evaluator dock_rando.py applies *)
(* to the same trees.                                                      *)
(*                                                                         *)
(* A rule is None (nothing is asked for), Impossible (an exception in the  *)
(* source), or a closure: a function from logic's states to BOOLEAN.  What *)
(* recurs on a tree is a function on Trees, which holds the parts of every *)
(* tree in it.                                                             *)
(***************************************************************************)
EXTENDS Integers, Sequences

CONSTANTS
  Trees,         \* the database's requirements, their parts and the templates
  Templates,     \* requirement_templates: name -> tree
  Pregranted,    \* constants.PREGRANTED_EVENTS
  AbsentItems,   \* DEFAULT_ABSENT_ITEMS
  Reductions,    \* damage_reductions: name -> set of [item, mult], in sixtieths
  ItemKind,      \* kind of item_mapping.expression: "bool", "count" or "const"
  States         \* what logic may hold: [count : item -> number, events : set of names]

(* The static context of a seed: trick options (0 is "use_global"), damage *)
(* strictness in halves, damage per second in tenths, energy per tank.     *)
TrickLevel(ctx, trick) ==
  IF ctx.perTrick[trick] = 0 THEN ctx.globalTrick ELSE ctx.perTrick[trick] - 1

Always      == [op |-> "none"]
Impossible  == [op |-> "impossible"]
Closure(on) == [op |-> "rule", on |-> on]
Fold(b)     == IF b THEN Always ELSE Impossible

Allows(rule, state) == rule.op = "none" \/ (rule.op = "rule" /\ rule.on[state])
-----------------------------------------------------------------------------
(* Damage.                                                                 *)

Multipliers(ctx, name, state) ==
  LET known == IF name = "DarkWorld1"
               THEN {[item |-> "none", mult |-> ctx.darkAether],
                     [item |-> "DarkSuit", mult |-> ctx.darkSuit],
                     [item |-> "LightSuit", mult |-> 0]}
               ELSE Reductions[name]
  IN  {r.mult : r \in {k \in known : k.item = "none" \/ state.count[k.item] >= 1}}

\* The least of the multipliers whose item is held, in sixtieths.
LeastReduction(ctx, name, state) ==
  LET mults == Multipliers(ctx, name, state)
  IN  IF mults = {} THEN 60 ELSE CHOOSE m \in mults : \A k \in mults : m <= k

Energy(ctx, state) == (ctx.energyPerTank - 1) + ctx.energyPerTank * state.count["EnergyTank"]

Survives(ctx, name, amount, state) ==
  (LeastReduction(ctx, name, state) * amount + 59) \div 60 < Energy(ctx, state)

\* int(amount * strictness) of the damage.
Damage(ctx, req) == (req.amount * ctx.strictness) \div 2
-----------------------------------------------------------------------------
(* Leaves: item_mapping.expression's kind of an item decides the folding.  *)

HasOne(item) == Closure([s \in States |-> s.count[item] >= 1])

\* mutant: an amount no copy of a boolean item reaches is left to the test
CompileBoolKept(item, amount) ==
  IF amount <= 0 THEN Always ELSE HasOne(item)

CompileBool(item, amount) ==
  IF amount <= 0 THEN Always ELSE IF amount > 1 THEN Impossible ELSE HasOne(item)

CompileCount(item, amount) ==
  IF amount <= 0 THEN Always ELSE Closure([s \in States |-> s.count[item] >= amount])

CompileItem(req) ==
  IF req.negate \/ req.name \in AbsentItems THEN Impossible
  ELSE CASE ItemKind[req.name] = "const" -> Fold(0 >= req.amount)
         [] ItemKind[req.name] = "bool"  -> CompileBool(req.name, req.amount)
         [] ItemKind[req.name] = "count" -> CompileCount(req.name, req.amount)

HasEvent(event) == Closure([s \in States |-> event \in s.events])

\* Negated events fold to True, pregranted ones too; regions.py places the rest.
CompileEvent(req) ==
  IF req.negate \/ req.name \in Pregranted THEN Always ELSE HasEvent(req.name)

CompileDamage(ctx, req) ==
  IF Damage(ctx, req) <= 0 THEN Always
  ELSE Closure([s \in States |-> Survives(ctx, req.name, Damage(ctx, req), s)])

CompileResource(ctx, req) ==
  CASE req.type = "trick"  -> Fold((TrickLevel(ctx, req.name) >= req.amount) # req.negate)
    [] req.type = "event"  -> CompileEvent(req)
    [] req.type = "item"   -> CompileItem(req)
    [] req.type = "damage" -> CompileDamage(ctx, req)
-----------------------------------------------------------------------------
(* Nodes: _compile_and and _compile_or over compiled parts.                *)

Closures(rules) == {i \in DOMAIN rules : rules[i].op = "rule"}

CombineAnd(rules) ==
  IF \E i \in DOMAIN rules : rules[i].op = "impossible" THEN Impossible
  ELSE IF Closures(rules) = {} THEN Always
  ELSE Closure([s \in States |-> \A i \in Closures(rules) : rules[i].on[s]])

CombineOr(rules) ==
  IF \E i \in DOMAIN rules : rules[i].op = "none" THEN Always
  ELSE IF Closures(rules) = {} THEN Impossible
  ELSE Closure([s \in States |-> \E i \in Closures(rules) : rules[i].on[s]])

CompileNode(ctx, t, compile) ==
  CASE t.type = "null"     -> Always
    [] t.type = "and"      -> CombineAnd([i \in DOMAIN t.items |-> compile[t.items[i]]])
    [] t.type = "or"       -> CombineOr([i \in DOMAIN t.items |-> compile[t.items[i]]])
    [] t.type = "template" -> compile[Templates[t.name]]
    [] OTHER               -> CompileResource(ctx, t)

Compiler(ctx) == LET compile[t \in Trees] == CompileNode(ctx, t, compile) IN compile

Compile(ctx, req) == Compiler(ctx)[req]

\* compile_with_alternative: a lock that can also be found broken.
CompileWithAlternative(ctx, req, event) == CombineOr(<<Compile(ctx, req), HasEvent(event)>>)
-----------------------------------------------------------------------------
(* dock_rando._event_gated_satisfied: everything but events is granted.    *)

AllowsNode(t, events, allows) ==
  CASE t.type = "null"     -> TRUE
    [] t.type = "and"      -> \A i \in DOMAIN t.items : allows[t.items[i]]
    [] t.type = "or"       -> \E i \in DOMAIN t.items : allows[t.items[i]]
    [] t.type = "template" -> allows[Templates[t.name]]
    [] t.type = "event"    -> (t.name \in events) # t.negate
    [] OTHER               -> TRUE

CoarseSweep(events) == LET allows[t \in Trees] == AllowsNode(t, events, allows) IN allows

CoarselyAllows(req, events) == CoarseSweep(events)[req]
-----------------------------------------------------------------------------
(* What a tree asks for, read off it node by node: randovania's meaning    *)
(* with this world's policy on negations (PLAN.md section D).              *)

MeansResource(ctx, req, state) ==
  CASE req.type = "trick"  -> (TrickLevel(ctx, req.name) >= req.amount) # req.negate
    [] req.type = "event"  -> req.negate \/ req.name \in Pregranted \cup state.events
    [] req.type = "item"   -> /\ ~req.negate
                              /\ req.name \notin AbsentItems
                              /\ state.count[req.name] >= req.amount
    [] req.type = "damage" -> Damage(ctx, req) <= 0 \/ Survives(ctx, req.name, Damage(ctx, req), state)

MeansNode(ctx, t, state, means) ==
  CASE t.type = "null"     -> TRUE
    [] t.type = "and"      -> \A i \in DOMAIN t.items : means[t.items[i]]
    [] t.type = "or"       -> \E i \in DOMAIN t.items : means[t.items[i]]
    [] t.type = "template" -> means[Templates[t.name]]
    [] OTHER               -> MeansResource(ctx, t, state)

Meaning(ctx, state) == LET means[t \in Trees] == MeansNode(ctx, t, state, means) IN means

Means(ctx, req, state) == Meaning(ctx, state)[req]

(* Trees whose events the coarse evaluator reads as the compiler does.     *)
PlainNode(t, plain) ==
  CASE t.type \in {"and", "or"} -> \A i \in DOMAIN t.items : plain[t.items[i]]
    [] t.type = "template"      -> plain[Templates[t.name]]
    [] t.type = "event"         -> ~t.negate /\ t.name \notin Pregranted
    [] OTHER                    -> TRUE

Plain == LET plain[t \in Trees] == PlainNode(t, plain) IN plain

PlainEvents(req) == Plain[req]
=============================================================================
