CONSTANT Scenes <- Everything
SPECIFICATION Spec
CHECK_DEADLOCK FALSE
INVARIANTS NamedSurvives BlocksStayWhole ExplanationHolds RewriteSettles
