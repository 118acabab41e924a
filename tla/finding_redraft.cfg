\* Two runs of generate on one item: the slower one's draft is taken for the
\* answer to a note it never saw.
CONSTANTS
  Items = {i1}
  NoItem = NoItem
  slot = slot
  Group <- OneSlot
  Workers = {w1, w2}
  Reviewers = {r1}
  Operators = {}
  MaxAttempts = 2
  MaxRegens = 1
  MaxCrashes = 0
SPECIFICATION Spec
INVARIANT RedraftAnswersFeedback
CHECK_DEADLOCK FALSE
