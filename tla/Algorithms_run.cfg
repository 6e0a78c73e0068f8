SPECIFICATION Spec
INVARIANTS ChoicesHold LogsHold EvidenceHolds DashboardsHold AnswersHold MentionsJudged MoneyAddsUp
CHECK_DEADLOCK FALSE
