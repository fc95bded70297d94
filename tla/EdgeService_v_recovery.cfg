SPECIFICATION AnsweredSpec
PROPERTY SpaceBackClosesGap
