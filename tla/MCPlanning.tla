----------------------------- MODULE MCPlanning -----------------------------
EXTENDS Planning

R(x1, x2, y1, y2) == <<<<x1, x2>>, <<y1, y2>>>>
MCDomain == R(0, 8, 0, 8)
MCVia == {<<4, 7>>, <<1, 7>>, <<5, 6>>}

QBase == [nearest |-> FALSE, shortcut |-> TRUE, collision |-> FALSE, strict |-> TRUE, repair |-> TRUE,
          simplify |-> FALSE]
QConfigs == {QBase, [QBase EXCEPT !.strict = FALSE, !.collision = TRUE, !.nearest = TRUE],
             [QBase EXCEPT !.collision = TRUE, !.simplify = TRUE],
             [QBase EXCEPT !.repair = FALSE, !.shortcut = FALSE, !.nearest = TRUE]}
Asked(c, q) == [cfg |-> c, start |-> q[1], goal |-> q[2]]
Pairs == {<<<<1, 1>>, <<7, 7>>>>, <<<<4, 7>>, <<1, 3>>>>, <<<<5, 1>>, <<1, 7>>>>, <<<<5, 6>>, <<8, 2>>>>}

Base == [frontier |-> FALSE, maxBridge |-> 6, maxChain |-> 4, segments |-> TRUE,
         fallbackOnly |-> FALSE, gapEdges |-> TRUE, gap |-> 0, birrt |-> TRUE,
         cancels |-> FALSE, policy |-> "CommitCertifiedOnly", certify |-> TRUE, depth |-> 4,
         window |-> 1, pairs |-> 3,
         asks |-> {Asked(c, q) : c \in QConfigs, q \in Pairs}]
MCConfigs ==
  {Base, [Base EXCEPT !.cancels = TRUE, !.birrt = FALSE],
   [Base EXCEPT !.frontier = TRUE, !.depth = 2, !.gap = 4],
   [Base EXCEPT !.frontier = TRUE, !.maxBridge = 3],
   [Base EXCEPT !.maxChain = 1, !.maxBridge = 2], [Base EXCEPT !.depth = 3, !.segments = FALSE],
   [Base EXCEPT !.segments = FALSE, !.gap = 4], [Base EXCEPT !.fallbackOnly = TRUE, !.gap = 4],
   [Base EXCEPT !.segments = FALSE, !.gap = 4, !.gapEdges = FALSE],
   [Base EXCEPT !.certify = FALSE, !.policy = "CommitProvisionalAllowed"],
   [Base EXCEPT !.certify = FALSE, !.policy = "AuditBeforeCommit", !.maxChain = 1]}

Plain(o, r) == [obs |-> o, regions |-> r, configs |-> MCConfigs, calls |-> {<<>>}]
Wall == Plain({R(3, 5, 0, 6)}, <<R(0, 2, 0, 8), R(6, 8, 0, 8)>>)
Slit == Plain({R(3, 5, 0, 3), R(3, 5, 5, 8)}, <<R(0, 2, 0, 8), R(6, 8, 0, 4), R(6, 8, 4, 8)>>)
Three == Plain({R(2, 4, 2, 5), R(5, 7, 4, 6)},
               <<R(0, 2, 0, 2), R(4, 6, 0, 2), R(0, 2, 6, 8), R(6, 8, 6, 8)>>)
Corner == Plain({R(0, 3, 5, 7)}, <<R(4, 6, 4, 8), R(6, 8, 6, 8), R(6, 8, 4, 6), R(0, 8, 2, 4)>>)
Pocket == Plain({R(2, 6, 3, 5), R(5, 7, 5, 8)}, <<R(0, 2, 0, 2), R(6, 8, 2, 4), R(0, 2, 6, 8)>>)

CBase == [kind |-> "query", cfg |-> QBase, start |-> <<1, 1>>, goal |-> <<7, 7>>, depth |-> 4,
          shortLink |-> 4, reach |-> 30, maxChain |-> 4, step |-> 2, parts |-> 3, boxOnly |-> FALSE,
          ratio |-> 120, targets |-> 2, maxSearches |-> 4, maxBoxes |-> 3, lateral |-> 1,
          residual |-> 9, fine |-> 1, direct |-> FALSE, directMin |-> 0]
Bridging(s, cs) ==
  [s EXCEPT !.configs = {[b EXCEPT !.asks = {Asked(QBase, <<<<1, 1>>, <<7, 7>>>>)}] :
                           b \in {Base, [Base EXCEPT !.segments = FALSE]}},
            !.calls = cs]
Queried == {[CBase EXCEPT !.start = p[1], !.goal = p[2], !.reach = r, !.depth = d, !.step = t, !.maxChain = m] :
              p \in {<<<<1, 1>>, <<7, 7>>>>, <<<<4, 7>>, <<7, 1>>>>, <<<<1, 7>>, <<8, 4>>>>},
              r \in {0, 30}, d \in {2, 3, 4}, t \in {1, 3}, m \in {1, 4}}
Walked == {[CBase EXCEPT !.kind = "walk", !.start = p, !.depth = d, !.maxSearches = n, !.lateral = l] :
             p \in {<<1, 1>>, <<7, 7>>, <<4, 7>>}, d \in {2, 3, 4}, n \in {1, 4}, l \in {0, 2}}
Others == {[CBase EXCEPT !.kind = k, !.start = p] : k \in {"refine", "link"},
             p \in {<<1, 1>>, <<7, 7>>, <<4, 7>>}}
Twice == {<<[CBase EXCEPT !.kind = k, !.start = <<1, 7>>], CBase>> : k \in {"query", "link", "walk"}}
BBase == [CBase EXCEPT !.kind = "batch"] @@
  [queries |-> <<>>, short |-> 3..5, segmentOnly |-> {}, forced |-> {}, skipShort |-> TRUE,
   parallel |-> FALSE, attempts |-> 1, forcedAttempts |-> 2, fallbacks |-> 1, retries |-> 0,
   detour |-> FALSE, offset |-> 2, quality |-> FALSE, additive |-> 1, maxLength |-> 4, fast |-> FALSE,
   evaluateAll |-> FALSE]
Lists == {<<<<<<1, 1>>, <<7, 7>>>>, <<<<1, 7>>, <<8, 4>>>>>>,
          <<<<<<1, 7>>, <<4, 7>>>>, <<<<4, 7>>, <<7, 1>>>>>>,
          <<<<<<4, 1>>, <<4, 7>>>>, <<<<1, 1>>, <<7, 7>>>>, <<<<7, 1>>, <<8, 4>>>>>>}
Batches ==
  UNION {{[b EXCEPT !.depth = d, !.step = t],
          [b EXCEPT !.depth = d, !.parallel = TRUE, !.evaluateAll = TRUE, !.step = t, !.attempts = 2]} :
           b \in {[BBase EXCEPT !.queries = l] : l \in Lists}, d \in {2, 3, 4}, t \in {1, 3}}
  \cup UNION {{[b EXCEPT !.direct = TRUE, !.directMin = 8],
               [b EXCEPT !.direct = TRUE, !.fast = TRUE, !.cfg.simplify = TRUE],
               [b EXCEPT !.direct = TRUE, !.cfg.simplify = TRUE, !.retries = 1],
               [b EXCEPT !.forced = {1}, !.parallel = TRUE, !.depth = 3],
               [b EXCEPT !.segmentOnly = {2}, !.parallel = TRUE],
               [b EXCEPT !.skipShort = FALSE, !.detour = TRUE, !.quality = TRUE],
               [b EXCEPT !.detour = TRUE, !.quality = TRUE, !.additive = 0, !.offset = 3]} :
                b \in {[BBase EXCEPT !.queries = l] : l \in Lists}}
Directs == {[CBase EXCEPT !.start = p[1], !.goal = p[2], !.direct = TRUE, !.cfg.simplify = TRUE, !.directMin = m] :
              p \in {<<<<1, 1>>, <<7, 7>>>>, <<<<1, 7>>, <<8, 4>>>>}, m \in {0, 20}}
MCScenes == {Wall, Slit, Three, Corner, Pocket} \cup
            {Bridging(s, {<<c>> : c \in Queried \cup Walked \cup Others \cup Batches \cup Directs} \cup Twice) :
               s \in {Wall, Slit, Three, Corner, Pocket}}
=============================================================================
