SPECIFICATION Spec
CHECK_DEADLOCK FALSE
CONSTANTS
 Makers = {TRUE, FALSE}
 WaitBars = 1
 Closes = {10, 12, 13}
 BarsPerDay = 3
 Size = 50
 Drawdown = 150
 DayLoss = 120
 CoolLosses = 1
 MaxLosses = 2
 CoolBars = 2
 MaxBar = 3
 MaxSteps = 3
INVARIANT FilledOnALaterBar
