CONSTANTS
    i1 = i1
    s1 = s1
    Interfaces = {i1}
    Services = {s1}
    MaxTries = 2
    Technologies = {"wifi", "ethernet"}
SPECIFICATION Spec
PROPERTIES
    SampleOnlyFromRunningTimer
    DefaultServiceSamplesEndTheirPeriod
